---- MODULE Spec2Model ----
(***************************************************************************)
(* FormatWord: alignment of translated paragraphs to source segments       *)
(* (textMatcher.js, two strategies), formatting-preserving text            *)
(* replacement (docxRebuilder.js / pptxRebuilder.js) and the pipeline of   *)
(* main.js.                                                                *)
(*                                                                         *)
(* Text is a sequence of one-character strings.  Indices of translated     *)
(* paragraphs, tIdx, bestMatch and wordIdx keep the 0-based values of the  *)
(* JavaScript source; a sequence s is read at s[i + 1].                    *)
(*                                                                         *)
(* Scores are exact rationals <<n, d>>, d > 0.  The source computes them   *)
(* in IEEE doubles; the two agree except on exact ties between candidates. *)
(***************************************************************************)
EXTENDS Integers, Sequences, FiniteSets, TLC

VARIABLES
    \* ---- matchTexts (textMatcher.js strict, part_000 adaptive) ----
    strategy,           \* "strict" | "adaptive"
    sourceSegments,     \* Seq of [id, text]
    translationText,    \* raw text
    translatedParagraphs, \* splitIntoParagraphs(translationText)
    mpc,                \* position inside matchTexts
    mapping,            \* Map segment id -> translated text
    unmatched,          \* Array of segments
    stats,              \* {total, matched, fuzzy, unmatched, method}
    tIdx,               \* Tier 2 scan pointer
    usedTranslations,   \* Set of consumed paragraph indices
    segPos,             \* number of segments the Tier 2 loop has handled
    unusedTranslations, \* Tier 3 pool: Seq of paragraph indices
    stillUnmatched,     \* Tier 3 accumulator
    unPos,              \* number of unmatched segments the Tier 3 loop has handled
    assigned,           \* history: Seq of [seg, idx, tier, tIdxBefore, branch]
    \* ---- replaceParagraphText / replacePptxParagraphText on one unit ----
    rVariant,           \* "docx" | "pptx" | "legacy" (part_002)
    para,               \* the unit: Seq of runs [nodes: Seq of [text, space], hl]
    paraBefore,         \* history: the unit before the call
    newText,            \* the translated text
    rpc,                \* "call" | "done"
    \* ---- parse and rebuildDocx / rebuildPptx on one document ----
    bVariant,           \* "docx" | "pptx" | "legacy" (part_002)
    zip,                \* the archive: Seq of [path, paras], one entry per file in it
    xmlFiles,           \* Map path -> parsed part, in insertion order: Seq of [path, paras]
    xmlBefore,          \* history: xmlFiles as parsed
    bSegments,          \* Seq of [id, text, xmlPath, element]
    bMapping,           \* Map segment id -> translated text
    filePos,            \* number of xmlFiles entries the rebuild loop has handled
    processedCount,     \* segments replaced so far
    zipWritten,         \* paths written back with zip.file(path, xml), in order
    paired,             \* history: Seq of [seg, path, element, act]
    bpc,                \* "parse" | "rebuild" | "generate" | "done"
    \* ---- main.js: the page state and the runs of runPipeline ----
    userFiles,          \* the source files the user picks from
    stSourceBuffer,     \* state.sourceBuffer: the file whose bytes it holds, NoFile for null
    stSourceFileName,   \* state.sourceFileName
    stFileType,         \* state.fileType
    stTranslationText,  \* state.translationText, equal to the textarea's value
    stGeneratedBlob,    \* state.generatedBlob, NoBlob for null
    pendingReads,       \* source files whose FileReader has not fired onload yet
    quickParses,        \* source files whose onload handler awaits its quick parse
    btnDisabled,        \* els.btnGenerate.disabled
    modalShown,         \* els.matchReviewModal is displayed
    reviewBody,         \* data-seg-id of the inputs in els.matchReviewBody, in order
    listeners,          \* runs whose handlers are registered on the modal's buttons
    runs,               \* the invocations of runPipeline, in the order they started
    saved               \* the last call of saveAs: file name, extension, the blob's source

matchVars == <<strategy, sourceSegments, translationText, translatedParagraphs, mpc, mapping, unmatched,
               stats, tIdx, usedTranslations, segPos, unusedTranslations,
               stillUnmatched, unPos, assigned>>

replaceVars == <<rVariant, para, paraBefore, newText, rpc>>

rebuildVars == <<bVariant, zip, xmlFiles, xmlBefore, bSegments, bMapping, filePos,
                 processedCount, zipWritten, paired, bpc>>

pipelineVars == <<userFiles, stSourceBuffer, stSourceFileName, stFileType, stTranslationText,
                  stGeneratedBlob, pendingReads, quickParses, btnDisabled, modalShown,
                  reviewBody, listeners, runs, saved>>

vars == <<matchVars, replaceVars, rebuildVars, pipelineVars>>

\* what the steps of one part leave alone
notMatch == <<replaceVars, rebuildVars, pipelineVars>>
notReplace == <<matchVars, rebuildVars, pipelineVars>>
notRebuild == <<matchVars, replaceVars, pipelineVars>>
notPipeline == <<matchVars, replaceVars, rebuildVars>>

----------------------------------------------------------------------------
(* Generic helpers *)

Min(a, b) == IF a < b THEN a ELSE b
Max(a, b) == IF a > b THEN a ELSE b
Abs(a) == IF a < 0 THEN -a ELSE a

RECURSIVE Concat(_)
Concat(ss) == IF ss = <<>> THEN <<>> ELSE Head(ss) \o Concat(Tail(ss))

RECURSIVE SeqsUpTo(_, _)
SeqsUpTo(S, n) ==
    IF n = 0 THEN {<<>>}
    ELSE LET prev == SeqsUpTo(S, n - 1)
         IN prev \cup {Append(s, x) : s \in {t \in prev : Len(t) = n - 1}, x \in S}

Range(s) == {s[i] : i \in 1..Len(s)}

\* Exact rationals in lowest terms
RECURSIVE Gcd(_, _)
Gcd(a, b) == IF b = 0 THEN a ELSE Gcd(b, a % b)
Rat(n, d) == IF n = 0 THEN <<0, 1>> ELSE <<n \div Gcd(n, d), d \div Gcd(n, d)>>
RatAdd(x, y) == Rat(x[1] * y[2] + y[1] * x[2], x[2] * y[2])
RatMul(x, y) == Rat(x[1] * y[1], x[2] * y[2])
RatGT(x, y) == x[1] * y[2] > y[1] * x[2]
RatLT(x, y) == RatGT(y, x)
RatZero == <<0, 1>>

----------------------------------------------------------------------------
(* JavaScript string primitives *)

\* \s of the regular expressions and of String.prototype.trim, over the alphabet
Whitespace == {" ", "\n", "\r", "\t"}
Digits == {"0", "1", "2", "3", "4", "5", "6", "7", "8", "9"}

RECURSIVE TrimStart(_)
TrimStart(s) ==
    IF s = <<>> THEN <<>>
    ELSE IF Head(s) \in Whitespace THEN TrimStart(Tail(s)) ELSE s

RECURSIVE TrimEnd(_)
TrimEnd(s) ==
    IF s = <<>> THEN <<>>
    ELSE IF s[Len(s)] \in Whitespace THEN TrimEnd(SubSeq(s, 1, Len(s) - 1)) ELSE s

\* String.prototype.trim
Trim(s) == TrimEnd(TrimStart(s))

\* text.split(/\r?\n/): the lines of text, a "\r" right before "\n" dropped
RECURSIVE SplitLinesFrom(_, _, _)
SplitLinesFrom(text, i, cur) ==
    IF i > Len(text) THEN <<cur>>
    ELSE IF text[i] = "\n"
         THEN <<cur>> \o SplitLinesFrom(text, i + 1, <<>>)
         ELSE IF text[i] = "\r" /\ i < Len(text) /\ text[i + 1] = "\n"
              THEN <<cur>> \o SplitLinesFrom(text, i + 2, <<>>)
              ELSE SplitLinesFrom(text, i + 1, Append(cur, text[i]))

SplitLines(text) == SplitLinesFrom(text, 1, <<>>)

RECURSIVE FilterNonEmpty(_)
FilterNonEmpty(ls) ==
    IF ls = <<>> THEN <<>>
    ELSE IF Len(Head(ls)) > 0 THEN <<Head(ls)>> \o FilterNonEmpty(Tail(ls))
         ELSE FilterNonEmpty(Tail(ls))

splitIntoParagraphs(text) ==
    FilterNonEmpty([i \in 1..Len(SplitLines(text)) |-> Trim(SplitLines(text)[i])])

\* text.replace(/\s+/g, ' '): every maximal whitespace run becomes one space
RECURSIVE CollapseWs(_, _)
CollapseWs(s, inWs) ==
    IF s = <<>> THEN <<>>
    ELSE IF Head(s) \in Whitespace
         THEN (IF inWs THEN <<>> ELSE <<" ">>) \o CollapseWs(Tail(s), TRUE)
         ELSE <<Head(s)>> \o CollapseWs(Tail(s), FALSE)

normalize(text) == Trim(CollapseWs(text, FALSE))

\* Array.prototype.join(' ') of a list of strings
RECURSIVE JoinWith(_, _)
JoinWith(ss, sep) ==
    IF ss = <<>> THEN <<>>
    ELSE IF Len(ss) = 1 THEN ss[1]
         ELSE ss[1] \o sep \o JoinWith(Tail(ss), sep)

\* String.prototype.substring(0, n)
Substring0(s, n) == SubSeq(s, 1, Min(n, Len(s)))

----------------------------------------------------------------------------
(* part_000 (adaptive textMatcher): similarity and anchors *)

\* Characters of every text of the model.  No text over it holds "@", "http"
\* or a capital letter, so of the four anchor patterns of extractAnchors only
\* the number pattern can match.
Alphabet == {"a", "b", "1", "2", " ", "\n", "\r"}

\* end (exclusive, 1-based) of the digit run starting at i
RECURSIVE DigitsEnd(_, _)
DigitsEnd(text, i) ==
    IF i <= Len(text) /\ text[i] \in Digits THEN DigitsEnd(text, i + 1) ELSE i

\* end of a match of /\d+([.,]\d+)*/ whose first digit run ended at j
RECURSIVE NumberEnd(_, _)
NumberEnd(text, j) ==
    IF j + 1 <= Len(text) /\ text[j] \in {".", ","} /\ text[j + 1] \in Digits
    THEN NumberEnd(text, DigitsEnd(text, j + 1))
    ELSE j

\* text.match(/\d+([.,]\d+)*/g) as a set
RECURSIVE NumberMatches(_, _)
NumberMatches(text, i) ==
    IF i > Len(text) THEN {}
    ELSE IF text[i] \in Digits
         THEN LET e == NumberEnd(text, DigitsEnd(text, i))
              IN {SubSeq(text, i, e - 1)} \cup NumberMatches(text, e)
         ELSE NumberMatches(text, i + 1)

extractAnchors(text) == NumberMatches(text, 1)

anchorScore(sourceText, translatedText) ==
    LET srcAnchors == extractAnchors(sourceText)
        tgtAnchors == extractAnchors(translatedText)
    IN IF Cardinality(srcAnchors) = 0 THEN RatZero
       ELSE Rat(Cardinality(srcAnchors \cap tgtAnchors), Cardinality(srcAnchors))

\* one row of the Levenshtein matrix: row i from row i - 1
RECURSIVE LevRow(_, _, _, _, _)
LevRow(prev, ai, b, j, acc) ==
    IF j > Len(b) THEN acc
    ELSE LET cost == IF ai = b[j] THEN 0 ELSE 1
             v == Min(Min(prev[j + 1] + 1, acc[j] + 1), prev[j] + cost)
         IN LevRow(prev, ai, b, j + 1, Append(acc, v))

RECURSIVE LevRows(_, _, _, _)
LevRows(a, b, i, prev) ==
    IF i > Len(a) THEN prev
    ELSE LevRows(a, b, i + 1, LevRow(prev, a[i], b, 1, <<i>>))

\* matrix[la][lb]
Levenshtein(a, b) == LevRows(a, b, 1, [j \in 1..(Len(b) + 1) |-> j - 1])[Len(b) + 1]

\* a.split(/\s+/) as a set of words ("" included when a starts or ends with whitespace)
RECURSIVE WordSetFrom(_, _, _)
WordSetFrom(s, i, cur) ==
    IF i > Len(s) THEN {cur}
    ELSE IF s[i] \in Whitespace
         THEN IF i > 1 /\ s[i - 1] \in Whitespace
              THEN WordSetFrom(s, i + 1, <<>>)
              ELSE {cur} \cup WordSetFrom(s, i + 1, <<>>)
         ELSE WordSetFrom(s, i + 1, Append(cur, s[i]))

LongStringLimit == 500

similarity(a, b) ==
    IF a = b THEN Rat(1, 1)
    ELSE IF a = <<>> \/ b = <<>> THEN RatZero
    ELSE LET la == Len(a)
             lb == Len(b)
         IN IF 10 * Abs(la - lb) > 8 * Max(la, lb) THEN RatZero
            ELSE IF la > LongStringLimit \/ lb > LongStringLimit
                 THEN LET wordsA == WordSetFrom(a, 1, <<>>)
                          wordsB == WordSetFrom(b, 1, <<>>)
                      IN Rat(2 * Cardinality(wordsA \cap wordsB),
                             Cardinality(wordsA) + Cardinality(wordsB))
                 ELSE Rat(Max(la, lb) - Levenshtein(a, b), Max(la, lb))

----------------------------------------------------------------------------
(* matchTexts: inputs *)

MaxSegments == 3
MaxLines == 5

\* flattened texts of content units (non-blank, not normalized)
SegTextPool == { <<"b">>, <<"a", " ", " ", "b", "1">> }

\* raw lines of a translation: blank, plain, padded and ending in "\r"
LinePool == { <<" ">>, <<"b">>, <<" ", "a", " ", " ", "b", "1", "\r">> }

\* extraction numbers the segments 0, 1, 2, ... in order
MkSegments(texts) == [i \in 1..Len(texts) |-> [id |-> i - 1, text |-> texts[i]]]

SegmentLists == {MkSegments(ts) : ts \in SeqsUpTo(SegTextPool, MaxSegments)}
TranslationTexts == {JoinWith(ls, <<"\n">>) : ls \in SeqsUpTo(LinePool, MaxLines)}

\* mutant of MapSet: every entry goes under the key 0
MapSetKeyZero(m, k, v) == (0 :> v) @@ m

\* Map.prototype.set
MapSet(m, k, v) == (k :> v) @@ m
EmptyMap == [k \in {} |-> <<>>]

NewStats(total) ==
    [total |-> total, matched |-> 0, fuzzy |-> 0, unmatched |-> 0, method |-> ""]

InitMatch ==
    /\ strategy \in {"strict", "adaptive"}
    /\ sourceSegments \in SegmentLists
    /\ translationText \in TranslationTexts
    /\ translatedParagraphs = <<>>
    /\ mpc = "call"
    /\ mapping = EmptyMap
    /\ unmatched = <<>>
    /\ stats = NewStats(0)
    /\ tIdx = 0
    /\ usedTranslations = {}
    /\ segPos = 0
    /\ unusedTranslations = <<>>
    /\ stillUnmatched = <<>>
    /\ unPos = 0
    /\ assigned = <<>>

adaptiveOnly == <<tIdx, usedTranslations, segPos, unusedTranslations,
                  stillUnmatched, unPos>>
matchInputs == <<strategy, sourceSegments, translationText, translatedParagraphs>>

\* the head of matchTexts, the same in both strategies
MatchBegin ==
    /\ mpc = "call"
    /\ translatedParagraphs' = splitIntoParagraphs(translationText)
    /\ mapping' = EmptyMap
    /\ unmatched' = <<>>
    /\ stats' = NewStats(Len(sourceSegments))
    /\ mpc' = "start"
    /\ UNCHANGED <<strategy, sourceSegments, translationText, adaptiveOnly, assigned>>
    /\ UNCHANGED notMatch

----------------------------------------------------------------------------
(* textMatcher.js: the strict strategy *)

\* mutant of SetRange: the loop stops one iteration early (i < to - 1)
RECURSIVE SetRangeShort(_, _, _, _, _)
SetRangeShort(m, segs, paras, i, to) ==
    IF i >= to - 1 THEN m
    ELSE SetRangeShort(MapSet(m, segs[i + 1].id, paras[i + 1]), segs, paras, i + 1, to)

\* for (i = from; i < to; i++) mapping.set(sourceSegments[i].id, translatedParagraphs[i])
RECURSIVE SetRange(_, _, _, _, _)
SetRange(m, segs, paras, i, to) ==
    IF i >= to THEN m
    ELSE SetRange(MapSet(m, segs[i + 1].id, paras[i + 1]), segs, paras, i + 1, to)

\* history of the index pairing: segment i took paragraph i
PairHistory(segs, n, br) ==
    [i \in 1..n |-> [seg |-> segs[i].id, pos |-> i - 1, idx |-> i - 1, tier |-> 1,
                     tIdxBefore |-> i - 1, branch |-> br]]

\* Case 1: same count
StrictCase1 ==
    /\ strategy = "strict" /\ mpc = "start"
    /\ Len(sourceSegments) = Len(translatedParagraphs)
    /\ mapping' = SetRange(mapping, sourceSegments, translatedParagraphs, 0,
                           Len(sourceSegments))
    /\ stats' = [stats EXCEPT !.method = "structure-1:1",
                              !.matched = Len(sourceSegments)]
    /\ assigned' = PairHistory(sourceSegments, Len(sourceSegments), "index")
    /\ mpc' = "done"
    /\ UNCHANGED <<matchInputs, unmatched, adaptiveOnly>>
    /\ UNCHANGED notMatch

\* mutant of UnmatchedTail: the first segment without a paragraph is forgotten
UnmatchedTailLate(segs, trgCount) == SubSeq(segs, trgCount + 2, Len(segs))

\* the segments the Case 2 loop pushes to unmatched: those at i >= trgCount
UnmatchedTail(segs, trgCount) == SubSeq(segs, trgCount + 1, Len(segs))

\* Case 2: more source than translation
StrictCase2 ==
    /\ strategy = "strict" /\ mpc = "start"
    /\ Len(sourceSegments) > Len(translatedParagraphs)
    /\ LET srcCount == Len(sourceSegments)
           trgCount == Len(translatedParagraphs)
       IN /\ mapping' = SetRange(mapping, sourceSegments, translatedParagraphs, 0, trgCount)
          /\ unmatched' = unmatched \o UnmatchedTail(sourceSegments, trgCount)
          /\ stats' = [stats EXCEPT !.method = "sequential-partial",
                                    !.matched = trgCount,
                                    !.unmatched = Len(UnmatchedTail(sourceSegments, trgCount))]
          /\ assigned' = PairHistory(sourceSegments, trgCount, "index")
    /\ mpc' = "done"
    /\ UNCHANGED <<matchInputs, adaptiveOnly>>
    /\ UNCHANGED notMatch

\* mutant of MergeOverflow: the overflow replaces the last segment's own paragraph
MergeOverflowOnly(paras, i) == JoinWith(SubSeq(paras, i + 2, Len(paras)), <<" ">>)

\* translatedParagraphs.slice(i).join(' ')
MergeOverflow(paras, i) == JoinWith(SubSeq(paras, i + 1, Len(paras)), <<" ">>)

\* Case 3: more translation than source, the overflow merged into the last segment
StrictCase3 ==
    /\ strategy = "strict" /\ mpc = "start"
    /\ Len(sourceSegments) < Len(translatedParagraphs)
    /\ LET srcCount == Len(sourceSegments)
           trgCount == Len(translatedParagraphs)
           head == SetRange(mapping, sourceSegments, translatedParagraphs, 0, srcCount - 1)
           remaining == MergeOverflow(translatedParagraphs, srcCount - 1)
       IN /\ mapping' = IF srcCount = 0 THEN mapping
                        ELSE MapSet(head, sourceSegments[srcCount].id, remaining)
          /\ stats' = [stats EXCEPT !.method = "sequential-merge",
                                    !.matched = srcCount,
                                    !.fuzzy = trgCount - srcCount]
          /\ assigned' = PairHistory(sourceSegments, srcCount, "index")
    /\ mpc' = "done"
    /\ UNCHANGED <<matchInputs, unmatched, adaptiveOnly>>
    /\ UNCHANGED notMatch

\* the mapping matchTexts returns, as a function of its arguments
StrictMapping(segs, paras) ==
    IF Len(segs) = Len(paras) THEN SetRange(EmptyMap, segs, paras, 0, Len(segs))
    ELSE IF Len(segs) > Len(paras) THEN SetRange(EmptyMap, segs, paras, 0, Len(paras))
    ELSE IF Len(segs) = 0 THEN EmptyMap
    ELSE MapSet(SetRange(EmptyMap, segs, paras, 0, Len(segs) - 1),
                segs[Len(segs)].id, MergeOverflow(paras, Len(segs) - 1))

\* the unmatched list matchTexts returns, as a function of its arguments
StrictUnmatched(segs, paras) ==
    IF Len(segs) > Len(paras) THEN UnmatchedTail(segs, Len(paras)) ELSE <<>>

----------------------------------------------------------------------------
(* part_000: the adaptive cascade *)

WindowWidth == 5

\* Level 1: same count
Level1 ==
    /\ strategy = "adaptive" /\ mpc = "start"
    /\ Len(sourceSegments) = Len(translatedParagraphs)
    /\ mapping' = SetRange(mapping, sourceSegments, translatedParagraphs, 0,
                           Len(sourceSegments))
    /\ stats' = [stats EXCEPT !.method = "structure-1:1",
                              !.matched = Len(sourceSegments)]
    /\ assigned' = PairHistory(sourceSegments, Len(sourceSegments), "index")
    /\ mpc' = "done"
    /\ UNCHANGED <<matchInputs, unmatched, adaptiveOnly>>
    /\ UNCHANGED notMatch

\* the counts differ: Level 2 starts with tIdx = 0 and nothing consumed
Level2Enter ==
    /\ strategy = "adaptive" /\ mpc = "start"
    /\ Len(sourceSegments) # Len(translatedParagraphs)
    /\ stats' = [stats EXCEPT !.method = "sequential-flex"]
    /\ tIdx' = 0
    /\ usedTranslations' = {}
    /\ mpc' = "level2"
    /\ UNCHANGED <<matchInputs, mapping, unmatched, segPos, unusedTranslations,
                   stillUnmatched, unPos, assigned>>
    /\ UNCHANGED notMatch

\* mutant of Level2Score: the position term is lost
Level2ScoreNoPosition(normSource, normTrans, w) ==
    LET aScore == anchorScore(normSource, normTrans)
        lenMin == Min(Len(normSource), Len(normTrans))
        lenMax == Max(Len(normSource), Len(normTrans))
        lenBonus == IF 10 * lenMin > 3 * lenMax THEN Rat(3 * lenMin, 10 * lenMax)
                    ELSE RatZero
    IN RatAdd(RatMul(aScore, Rat(4, 10)), RatMul(lenBonus, Rat(3, 10)))

\* aScore * 0.4 + positionBonus * 0.3 + lenBonus * 0.3 for window slot w
Level2Score(normSource, normTrans, w) ==
    LET aScore == anchorScore(normSource, normTrans)
        positionBonus == Rat(10 - w, 10)
        lenMin == Min(Len(normSource), Len(normTrans))
        lenMax == Max(Len(normSource), Len(normTrans))
        \* lenRatio > 0.3 ? lenRatio * 0.3 : 0
        lenBonus == IF 10 * lenMin > 3 * lenMax THEN Rat(3 * lenMin, 10 * lenMax)
                    ELSE RatZero
    IN RatAdd(RatAdd(RatMul(aScore, Rat(4, 10)), RatMul(positionBonus, Rat(3, 10))),
              RatMul(lenBonus, Rat(3, 10)))

\* the look-ahead loop: for (w = 0; w < windowSize; w++)
RECURSIVE ScanWindow(_, _, _, _, _, _, _)
ScanWindow(normSource, paras, t, used, w, windowSize, best) ==
    IF w >= windowSize THEN best
    ELSE LET candidateIdx == t + w
         IN IF candidateIdx >= Len(paras) THEN best
            ELSE IF candidateIdx \in used
                 THEN ScanWindow(normSource, paras, t, used, w + 1, windowSize, best)
                 ELSE LET totalScore ==
                              Level2Score(normSource, normalize(paras[candidateIdx + 1]), w)
                          next == IF RatGT(totalScore, best.bestScore)
                                  THEN [bestMatch |-> candidateIdx, bestScore |-> totalScore]
                                  ELSE best
                      IN ScanWindow(normSource, paras, t, used, w + 1, windowSize, next)

Level2Best(segment, paras, t, used) ==
    ScanWindow(normalize(segment.text), paras, t, used, 0,
               Min(WindowWidth, Len(paras) - t),
               [bestMatch |-> -1, bestScore |-> RatZero])

\* mutant of AdvancePointer: the scan pointer moves on by one
AdvancePointerByOne(t, bestMatch) == t + 1

\* mutant of AdvancePointer: the scan pointer is left where it was
AdvancePointerStuck(t, bestMatch) == t

\* tIdx = bestMatch + 1
AdvancePointer(t, bestMatch) == bestMatch + 1

\* one iteration of for (const segment of sourceSegments)
Level2Step ==
    /\ mpc = "level2" /\ segPos < Len(sourceSegments)
    /\ LET segment == sourceSegments[segPos + 1]
           paras == translatedParagraphs
           best == Level2Best(segment, paras, tIdx, usedTranslations)
           entry(i, br) == [seg |-> segment.id, pos |-> segPos, idx |-> i, tier |-> 2,
                            tIdxBefore |-> tIdx, branch |-> br]
       IN IF best.bestMatch >= 0 /\ RatGT(best.bestScore, Rat(2, 10))
          THEN /\ mapping' = MapSet(mapping, segment.id, paras[best.bestMatch + 1])
               /\ usedTranslations' = usedTranslations \cup {best.bestMatch}
               /\ tIdx' = AdvancePointer(tIdx, best.bestMatch)
               /\ stats' = [stats EXCEPT
                              !.matched = @ + 1,
                              !.fuzzy = IF RatLT(best.bestScore, Rat(6, 10)) THEN @ + 1 ELSE @]
               /\ assigned' = Append(assigned, entry(best.bestMatch, "scored"))
               /\ UNCHANGED unmatched
          ELSE IF tIdx < Len(paras) /\ tIdx \notin usedTranslations
               THEN /\ mapping' = MapSet(mapping, segment.id, paras[tIdx + 1])
                    /\ usedTranslations' = usedTranslations \cup {tIdx}
                    /\ tIdx' = tIdx + 1
                    /\ stats' = [stats EXCEPT !.matched = @ + 1, !.fuzzy = @ + 1]
                    /\ assigned' = Append(assigned, entry(tIdx, "positional"))
                    /\ UNCHANGED unmatched
               ELSE /\ unmatched' = Append(unmatched, segment)
                    /\ stats' = [stats EXCEPT !.unmatched = @ + 1]
                    /\ UNCHANGED <<mapping, usedTranslations, tIdx, assigned>>
    /\ segPos' = segPos + 1
    /\ UNCHANGED <<matchInputs, mpc, unusedTranslations, stillUnmatched, unPos>>
    /\ UNCHANGED notMatch

\* mutant of UnusedFrom: the filter on usedTranslations is lost
RECURSIVE UnusedFromAll(_, _, _)
UnusedFromAll(i, n, used) ==
    IF i >= n THEN <<>> ELSE <<i>> \o UnusedFromAll(i + 1, n, used)

\* translatedParagraphs.map(...).filter(t => !usedTranslations.has(t.index)), as indices
RECURSIVE UnusedFrom(_, _, _)
UnusedFrom(i, n, used) ==
    IF i >= n THEN <<>>
    ELSE (IF i \in used THEN <<>> ELSE <<i>>) \o UnusedFrom(i + 1, n, used)

\* the Level 2 loop is over: Level 3 runs if (unmatched.length > 0)
Level2Done ==
    /\ mpc = "level2" /\ segPos = Len(sourceSegments)
    /\ IF Len(unmatched) > 0
       THEN /\ unusedTranslations' = UnusedFrom(0, Len(translatedParagraphs), usedTranslations)
            /\ stillUnmatched' = <<>>
            /\ unPos' = 0
            /\ mpc' = "level3"
       ELSE /\ mpc' = "done"
            /\ UNCHANGED <<unusedTranslations, stillUnmatched, unPos>>
    /\ UNCHANGED <<matchInputs, mapping, unmatched, stats, tIdx, usedTranslations,
                   segPos, assigned>>
    /\ UNCHANGED notMatch

\* aScore * 0.5 + simScore * 0.5
Level3Score(segText, candText) ==
    RatAdd(RatMul(anchorScore(segText, candText), Rat(5, 10)),
           RatMul(similarity(Substring0(normalize(segText), 100),
                             Substring0(normalize(candText), 100)), Rat(5, 10)))

\* for (const candidate of unusedTranslations): best is -1 (null) or a paragraph index
RECURSIVE Level3Scan(_, _, _, _, _)
Level3Scan(segText, paras, pool, k, best) ==
    IF k > Len(pool) THEN best
    ELSE LET totalScore == Level3Score(segText, paras[pool[k] + 1])
             next == IF RatGT(totalScore, best.bestScore) /\ RatGT(totalScore, Rat(3, 10))
                     THEN [bestMatch |-> pool[k], bestScore |-> totalScore]
                     ELSE best
         IN Level3Scan(segText, paras, pool, k + 1, next)

\* unusedTranslations.splice(unusedTranslations.indexOf(bestMatch), 1)
RECURSIVE RemoveFirst(_, _)
RemoveFirst(pool, x) ==
    IF pool = <<>> THEN <<>>
    ELSE IF Head(pool) = x THEN Tail(pool) ELSE <<Head(pool)>> \o RemoveFirst(Tail(pool), x)

\* mutant of RescueStats: stats.matched++ is forgotten
RescueStatsNoMatched(st) == [st EXCEPT !.unmatched = @ - 1, !.fuzzy = @ + 1]

\* mutant of RescueStats: stats.unmatched-- is forgotten
RescueStatsNoDecrement(st) == [st EXCEPT !.matched = @ + 1, !.fuzzy = @ + 1]

\* stats.matched++; stats.unmatched--; stats.fuzzy++
RescueStats(st) == [st EXCEPT !.matched = @ + 1, !.unmatched = @ - 1, !.fuzzy = @ + 1]

\* one iteration of for (const segment of unmatched)
Level3Step ==
    /\ mpc = "level3" /\ unPos < Len(unmatched)
    /\ LET segment == unmatched[unPos + 1]
           best == Level3Scan(segment.text, translatedParagraphs, unusedTranslations, 1,
                              [bestMatch |-> -1, bestScore |-> RatZero])
       IN IF best.bestMatch >= 0
          THEN /\ mapping' = MapSet(mapping, segment.id,
                                    translatedParagraphs[best.bestMatch + 1])
               /\ unusedTranslations' = RemoveFirst(unusedTranslations, best.bestMatch)
               /\ stats' = RescueStats(stats)
               /\ assigned' = Append(assigned,
                      [seg |-> segment.id, pos |-> segment.id, idx |-> best.bestMatch,
                       tier |-> 3, tIdxBefore |-> tIdx, branch |-> "residual"])
               /\ UNCHANGED stillUnmatched
          ELSE /\ stillUnmatched' = Append(stillUnmatched, segment)
               /\ UNCHANGED <<mapping, unusedTranslations, stats, assigned>>
    /\ unPos' = unPos + 1
    /\ UNCHANGED <<matchInputs, mpc, unmatched, tIdx, usedTranslations, segPos>>
    /\ UNCHANGED notMatch

\* mutant of Level3Done: the unmatched list is not updated
Level3DoneKeepList ==
    /\ mpc = "level3" /\ unPos = Len(unmatched)
    /\ mpc' = "done"
    /\ UNCHANGED <<matchInputs, mapping, unmatched, stats, tIdx, usedTranslations, segPos,
                   unusedTranslations, stillUnmatched, unPos, assigned>>
    /\ UNCHANGED notMatch

\* unmatched.length = 0; unmatched.push(...stillUnmatched)
Level3Done ==
    /\ mpc = "level3" /\ unPos = Len(unmatched)
    /\ unmatched' = stillUnmatched
    /\ mpc' = "done"
    /\ UNCHANGED <<matchInputs, mapping, stats, tIdx, usedTranslations, segPos,
                   unusedTranslations, stillUnmatched, unPos, assigned>>
    /\ UNCHANGED notMatch

NextMatch ==
    \/ MatchBegin
    \/ StrictCase1
    \/ StrictCase2
    \/ StrictCase3
    \/ Level1
    \/ Level2Enter
    \/ Level2Step
    \/ Level2Done
    \/ Level3Step
    \/ Level3Done


----------------------------------------------------------------------------
(* Claims about matchTexts *)

SegmentIds == {sourceSegments[i].id : i \in 1..Len(sourceSegments)}
MatchDone == mpc = "done"
SameCount == Len(sourceSegments) = Len(splitIntoParagraphs(translationText))

\* C1: when the translation has as many non-empty trimmed lines as there are
\* segments, both strategies map segments[i].id to the i-th translated paragraph,
\* return no unmatched segment and stats with matched = total, unmatched = 0 and
\* method 'structure-1:1'.
C1_SameCountIdentity ==
    (MatchDone /\ SameCount) =>
        /\ DOMAIN mapping = SegmentIds
        /\ \A i \in 1..Len(sourceSegments) :
               mapping[sourceSegments[i].id] = splitIntoParagraphs(translationText)[i]
        /\ unmatched = <<>>
        /\ stats.total = Len(sourceSegments)
        /\ stats.matched = stats.total
        /\ stats.unmatched = 0
        /\ stats.method = "structure-1:1"

\* a 1:1 result over three segments and a translation holding blank lines
C1_Witness ==
    /\ MatchDone /\ SameCount
    /\ strategy = "adaptive"
    /\ Len(sourceSegments) = 3
    /\ Len(SplitLines(translationText)) > 3
    /\ stats.method = "structure-1:1"

\* C2: on return, in both strategies, stats.matched + stats.unmatched = stats.total.
C2_Completeness ==
    MatchDone => stats.matched + stats.unmatched = stats.total

\* a return of the cascade after Tier 3 rescued one segment and left another
C2_Witness ==
    /\ MatchDone /\ strategy = "adaptive"
    /\ \E k \in 1..Len(assigned) : assigned[k].tier = 3
    /\ stats.unmatched > 0 /\ stats.matched > 1

\* C3: in the adaptive cascade no translated-paragraph index is assigned to two
\* distinct segments, Tier 3 assignments after Tier 2 assignments included.
C3_NoDoubleUse ==
    strategy = "adaptive" =>
        \A j, k \in 1..Len(assigned) :
            (assigned[j].seg # assigned[k].seg) => assigned[j].idx # assigned[k].idx

\* Tier 2 consumed a paragraph and Tier 3 then gave two more segments a paragraph
C3_Witness ==
    /\ MatchDone /\ strategy = "adaptive"
    /\ \E j, k, l \in 1..Len(assigned) :
           /\ assigned[j].tier = 2 /\ assigned[k].tier = 3 /\ assigned[l].tier = 3
           /\ k # l

\* C4 as claimed: over all assignments of the cascade, Tier 3's included, a later
\* segment never holds a paragraph of smaller index than an earlier segment's.
C4_OrderAllTiers ==
    strategy = "adaptive" =>
        \A j, k \in 1..Len(assigned) :
            (assigned[j].pos < assigned[k].pos) => assigned[j].idx <= assigned[k].idx

\* C4 amended: over the assignments made by Level 1 and Tier 2, a later segment
\* never holds a paragraph of smaller index than an earlier segment's.
C4_OrderSequentialTiers ==
    strategy = "adaptive" =>
        \A j, k \in 1..Len(assigned) :
            (assigned[j].tier <= 2 /\ assigned[k].tier <= 2
             /\ assigned[j].pos < assigned[k].pos) => assigned[j].idx <= assigned[k].idx

\* Tier 2 matched two segments, skipping a paragraph between them
C4_Witness ==
    /\ MatchDone /\ strategy = "adaptive"
    /\ \E j, k \in 1..Len(assigned) :
           /\ assigned[j].tier = 2 /\ assigned[k].tier = 2
           /\ assigned[j].pos < assigned[k].pos
           /\ assigned[k].idx > assigned[j].idx + 1

\* C5: strict strategy with P paragraphs, S segments and P > S >= 1: segment
\* i < S-1 maps to paragraph i, the last segment to paragraphs S-1..P-1 joined
\* with single spaces, nothing is unmatched, matched = S, fuzzy = P - S, method
\* 'sequential-merge'.
C5_StrictMerge ==
    LET paras == splitIntoParagraphs(translationText)
        S == Len(sourceSegments)
        P == Len(paras)
    IN (MatchDone /\ strategy = "strict" /\ P > S /\ S >= 1) =>
        /\ DOMAIN mapping = SegmentIds
        /\ \A i \in 1..(S - 1) : mapping[sourceSegments[i].id] = paras[i]
        /\ mapping[sourceSegments[S].id] =
               JoinWith([k \in 1..(P - S + 1) |-> paras[S - 1 + k]], <<" ">>)
        /\ unmatched = <<>>
        /\ stats.matched = S
        /\ stats.fuzzy = P - S
        /\ stats.method = "sequential-merge"

\* three segments and five paragraphs, as in the scenario of the specification
C5_Witness ==
    /\ MatchDone /\ strategy = "strict"
    /\ Len(sourceSegments) = 3
    /\ Len(translatedParagraphs) = 5
    /\ stats.fuzzy = 2

\* C6: strict strategy with S segments and P < S paragraphs: segments 0..P-1 map
\* index for index, segments P..S-1 have no entry and are the unmatched list in
\* their order, matched = P, unmatched = S - P, fuzzy = 0, method
\* 'sequential-partial'.
C6_StrictPartial ==
    LET paras == splitIntoParagraphs(translationText)
        S == Len(sourceSegments)
        P == Len(paras)
    IN (MatchDone /\ strategy = "strict" /\ P < S) =>
        /\ DOMAIN mapping = {sourceSegments[i].id : i \in 1..P}
        /\ \A i \in 1..P : mapping[sourceSegments[i].id] = paras[i]
        /\ unmatched = [k \in 1..(S - P) |-> sourceSegments[P + k]]
        /\ stats.matched = P
        /\ stats.unmatched = S - P
        /\ stats.fuzzy = 0
        /\ stats.method = "sequential-partial"

\* three segments, one paragraph: two segments are left unmatched
C6_Witness ==
    /\ MatchDone /\ strategy = "strict"
    /\ Len(sourceSegments) = 3
    /\ Len(translatedParagraphs) = 1
    /\ Len(unmatched) = 2

----------------------------------------------------------------------------
(* docxRebuilder.js, pptxRebuilder.js, part_002: text replacement in one unit *)
(*                                                                          *)
(* A unit is the list of its runs as getDirectRuns / getPptxRuns return     *)
(* them; a run holds its text nodes in order and its highlight.             *)

TextNode(t) == [text |-> t, space |-> "default"]
Run(texts, h) == [nodes |-> [i \in 1..Len(texts) |-> TextNode(texts[i])], hl |-> h]

\* runText: the text nodes' textContent concatenated
RunText(run) == Concat([i \in 1..Len(run.nodes) |-> run.nodes[i].text])

\* extractTextFromParagraph / extractTextFromPptxParagraph
extractTextFromParagraph(p) == Concat([i \in 1..Len(p) |-> RunText(p[i])])

\* isContentParagraph / isPptxContentParagraph
isContentParagraph(p) == Len(Trim(extractTextFromParagraph(p))) > 0

\* the indices (1-based) of runInfos.filter(ri => ri.length > 0)
RECURSIVE TextRunsFrom(_, _)
TextRunsFrom(p, i) ==
    IF i > Len(p) THEN <<>>
    ELSE (IF Len(RunText(p[i])) > 0 THEN <<i>> ELSE <<>>) \o TextRunsFrom(p, i + 1)

\* mutant of TextRuns: runs without text count as text runs too
TextRunsEveryRun(p) == [i \in 1..Len(p) |-> i]

TextRuns(p) == TextRunsFrom(p, 1)

\* totalOriginalLen
TotalOriginalLen(p) == Len(extractTextFromParagraph(p))

\* mutant of SetRunText: the run is left with one text node
SetRunTextOneNode(run, chunk, preserve) ==
    IF Len(run.nodes) >= 1
    THEN [run EXCEPT !.nodes =
              <<[text |-> chunk,
                 space |-> IF preserve THEN "preserve" ELSE run.nodes[1].space]>>]
    ELSE run

\* mutant of SetRunText: the further text nodes of the run are not cleared
SetRunTextKeepRest(run, chunk, preserve) ==
    IF Len(run.nodes) >= 1
    THEN [run EXCEPT !.nodes[1] =
              [text |-> chunk,
               space |-> IF preserve THEN "preserve" ELSE run.nodes[1].space]]
    ELSE run

\* textNodes[0].textContent = chunk (with xml:space="preserve" in the DOCX
\* rebuilders); textNodes[j].textContent = '' for j >= 1
SetRunText(run, chunk, preserve) ==
    IF Len(run.nodes) >= 1
    THEN [run EXCEPT !.nodes =
              [j \in 1..Len(run.nodes) |->
                  IF j = 1
                  THEN [text |-> chunk,
                        space |-> IF preserve THEN "preserve" ELSE run.nodes[1].space]
                  ELSE [run.nodes[j] EXCEPT !.text = <<>>]]]
    ELSE run

\* newText.split(/(\s+)/): words and whitespace runs alternate, a word first and
\* last ("" when the text starts or ends with whitespace)
RECURSIVE SplitKeepFrom(_, _, _, _)
SplitKeepFrom(text, i, cur, inWs) ==
    IF i > Len(text) THEN IF inWs THEN <<cur, <<>>>> ELSE <<cur>>
    ELSE IF (text[i] \in Whitespace) = inWs
         THEN SplitKeepFrom(text, i + 1, Append(cur, text[i]), inWs)
         ELSE <<cur>> \o SplitKeepFrom(text, i + 1, <<text[i]>>, ~inWs)

\* mutant of SplitKeepWhitespace: every character is a token
SplitEveryCharacter(text) == [i \in 1..Len(text) |-> <<text[i]>>]

SplitKeepWhitespace(text) == SplitKeepFrom(text, 1, <<>>, FALSE)

\* Math.round(n / d) for n >= 0, d > 0
RoundDiv(n, d) == (2 * n + d) \div (2 * d)

\* Math.round((ri.length / totalOriginalLen) * totalNewLen)
TargetLength(runLen, totalLen, newLen) == RoundDiv(runLen * newLen, totalLen)

\* mutant of TakeWords: the word that would overshoot is skipped, not left for
\* the next run
RECURSIVE TakeWordsSkipping(_, _, _, _)
TakeWordsSkipping(words, wordIdx, chunk, target) ==
    IF wordIdx >= Len(words) THEN [chunk |-> chunk, wordIdx |-> wordIdx]
    ELSE LET nextWord == words[wordIdx + 1]
         IN IF Len(chunk) > 0 /\ 10 * (Len(chunk) + Len(nextWord)) > 13 * target
            THEN [chunk |-> chunk, wordIdx |-> wordIdx + 1]
            ELSE IF Len(chunk) + Len(nextWord) >= target /\ wordIdx + 1 < Len(words)
                 THEN [chunk |-> chunk \o nextWord, wordIdx |-> wordIdx + 1]
                 ELSE TakeWordsSkipping(words, wordIdx + 1, chunk \o nextWord, target)

\* mutant of TakeWords: no limit on the overshoot
RECURSIVE TakeWordsNoLimit(_, _, _, _)
TakeWordsNoLimit(words, wordIdx, chunk, target) ==
    IF wordIdx >= Len(words) THEN [chunk |-> chunk, wordIdx |-> wordIdx]
    ELSE LET nextWord == words[wordIdx + 1]
         IN IF Len(chunk) + Len(nextWord) >= target /\ wordIdx + 1 < Len(words)
            THEN [chunk |-> chunk \o nextWord, wordIdx |-> wordIdx + 1]
            ELSE TakeWordsNoLimit(words, wordIdx + 1, chunk \o nextWord, target)

\* the while loop of a non-last run: [chunk, wordIdx] on leaving it
RECURSIVE TakeWords(_, _, _, _)
TakeWords(words, wordIdx, chunk, target) ==
    IF wordIdx >= Len(words) THEN [chunk |-> chunk, wordIdx |-> wordIdx]
    ELSE LET nextWord == words[wordIdx + 1]
         IN IF Len(chunk) > 0 /\ 10 * (Len(chunk) + Len(nextWord)) > 13 * target
            THEN [chunk |-> chunk, wordIdx |-> wordIdx]
            ELSE IF Len(chunk) + Len(nextWord) >= target /\ wordIdx + 1 < Len(words)
                 THEN [chunk |-> chunk \o nextWord, wordIdx |-> wordIdx + 1]
                 ELSE TakeWords(words, wordIdx + 1, chunk \o nextWord, target)

\* the chunks of text runs i, i + 1, ... (i is 1-based in textRuns)
RECURSIVE WordChunks(_, _, _, _, _)
WordChunks(p, textRuns, words, i, wordIdx) ==
    IF i > Len(textRuns) THEN <<>>
    ELSE IF i = Len(textRuns)
         THEN <<Concat(SubSeq(words, wordIdx + 1, Len(words)))>>
         ELSE LET target == TargetLength(Len(RunText(p[textRuns[i]])),
                                         TotalOriginalLen(p), Len(Concat(words)))
                  got == TakeWords(words, wordIdx, <<>>, target)
              IN <<got.chunk>> \o WordChunks(p, textRuns, words, i + 1, got.wordIdx)

\* chunk.lastIndexOf(' '), 0-based, -1 when there is none
RECURSIVE LastIndexOfSpace(_, _)
LastIndexOfSpace(chunk, i) ==
    IF i = 0 THEN -1
    ELSE IF chunk[i] = " " THEN i - 1 ELSE LastIndexOfSpace(chunk, i - 1)

\* part_002: the chunk of a non-last run cut from remaining
LegacyChunk(remaining, runLen, totalLen, newLen) ==
    LET chunkLen == RoundDiv(newLen * runLen, totalLen)
        chunk == Substring0(remaining, chunkLen)
        lastSpace == LastIndexOfSpace(chunk, Len(chunk))
    IN IF 2 * lastSpace > chunkLen THEN Substring0(remaining, lastSpace + 1) ELSE chunk

RECURSIVE LegacyChunks(_, _, _, _, _)
LegacyChunks(p, textRuns, text, i, remaining) ==
    IF i > Len(textRuns) THEN <<>>
    ELSE IF i = Len(textRuns) THEN <<remaining>>
         ELSE LET chunk == LegacyChunk(remaining, Len(RunText(p[textRuns[i]])),
                                       TotalOriginalLen(p), Len(text))
              IN <<chunk>> \o LegacyChunks(p, textRuns, text, i + 1,
                                           SubSeq(remaining, Len(chunk) + 1, Len(remaining)))

\* the unit with chunk k written to its k-th text run
WriteChunks(p, textRuns, chunks, preserve) ==
    [i \in 1..Len(p) |->
        IF \E k \in 1..Len(textRuns) : textRuns[k] = i
        THEN SetRunText(p[i], chunks[CHOOSE k \in 1..Len(textRuns) : textRuns[k] = i],
                        preserve)
        ELSE p[i]]

\* the chunks the three rebuilders hand to the text runs of p
ChunksFor(variant, p, text) ==
    LET textRuns == TextRuns(p)
    IN IF Len(textRuns) = 1 THEN <<text>>
       ELSE IF variant = "legacy" THEN LegacyChunks(p, textRuns, text, 1, text)
            ELSE WordChunks(p, textRuns, SplitKeepWhitespace(text), 1, 0)

\* replaceParagraphText (docx, legacy) / replacePptxParagraphText (pptx)
replaceParagraphText(variant, p, text) ==
    IF Len(p) = 0 \/ Len(TextRuns(p)) = 0 THEN p
    ELSE WriteChunks(p, TextRuns(p), ChunksFor(variant, p, text), variant # "pptx")

----------------------------------------------------------------------------
(* Text replacement in one unit: inputs and steps *)

MaxRunsPerUnit == 3
MaxNewLen == 5

\* text nodes of a run: none (a tab or break only), one empty, one or two with text
RunPool == { Run(<<>>, "none"), Run(<< <<>> >>, "none"), Run(<< <<"x">> >>, "none"),
             Run(<< <<"x">>, <<"x", "x">> >>, "none"),
             Run(<< <<"x", "x", "x", "x">> >>, "none") }

UnitPool == SeqsUpTo(RunPool, MaxRunsPerUnit)
NewTextPool == SeqsUpTo({"a", " "}, MaxNewLen)

InitReplaceVars ==
    /\ rVariant \in {"docx", "pptx", "legacy"}
    /\ para \in UnitPool
    /\ paraBefore = para
    /\ newText \in NewTextPool
    /\ rpc = "call"

\* replaceParagraphText of docxRebuilder.js
ReplaceDocx ==
    /\ rpc = "call" /\ rVariant = "docx"
    /\ para' = replaceParagraphText("docx", para, newText)
    /\ rpc' = "done"
    /\ UNCHANGED <<rVariant, paraBefore, newText>>
    /\ UNCHANGED notReplace

\* replacePptxParagraphText of pptxRebuilder.js
ReplacePptx ==
    /\ rpc = "call" /\ rVariant = "pptx"
    /\ para' = replaceParagraphText("pptx", para, newText)
    /\ rpc' = "done"
    /\ UNCHANGED <<rVariant, paraBefore, newText>>
    /\ UNCHANGED notReplace

\* replaceParagraphText of part_002
ReplaceLegacy ==
    /\ rpc = "call" /\ rVariant = "legacy"
    /\ para' = replaceParagraphText("legacy", para, newText)
    /\ rpc' = "done"
    /\ UNCHANGED <<rVariant, paraBefore, newText>>
    /\ UNCHANGED notReplace

NextReplace ==
    \/ ReplaceDocx
    \/ ReplacePptx
    \/ ReplaceLegacy

----------------------------------------------------------------------------
(* part_001 / pptxParser.js: extraction; docxRebuilder.js, pptxRebuilder.js,  *)
(* part_002: the rewrite of a document                                        *)
(*                                                                            *)
(* A part's paras are its structural units in the order getAllParagraphs      *)
(* (DOCX) or the shape walk (PPTX) returns them, the same at extraction and   *)
(* at rewrite; a segment's element is the position of its unit in that list.  *)

\* positions of the units with isContentParagraph, in order
RECURSIVE ContentParasFrom(_, _)
ContentParasFrom(paras, k) ==
    IF k > Len(paras) THEN <<>>
    ELSE (IF isContentParagraph(paras[k]) THEN <<k>> ELSE <<>>)
         \o ContentParasFrom(paras, k + 1)

\* mutant of ContentParas: every unit is listed, blank ones too
ContentParasAll(paras) == [k \in 1..Len(paras) |-> k]

ContentParas(paras) == ContentParasFrom(paras, 1)

\* the extraction loop over one part: segmentId++ for every content unit
RECURSIVE ExtractPart(_, _, _, _)
ExtractPart(path, paras, k, segmentId) ==
    IF k > Len(paras) THEN <<>>
    ELSE IF ~isContentParagraph(paras[k]) THEN ExtractPart(path, paras, k + 1, segmentId)
         ELSE <<[id |-> segmentId, text |-> extractTextFromParagraph(paras[k]),
                 xmlPath |-> path, element |-> k]>>
              \o ExtractPart(path, paras, k + 1, segmentId + 1)

\* mutant of ExtractAll: the id counter starts again at each part
RECURSIVE ExtractAllRestart(_, _, _)
ExtractAllRestart(files, f, segmentId) ==
    IF f > Len(files) THEN <<>>
    ELSE ExtractPart(files[f].path, files[f].paras, 1, 0)
         \o ExtractAllRestart(files, f + 1, 0)

\* for (const [xmlPath, doc] of xmlFiles): segments of all parts, ids running on
RECURSIVE ExtractAll(_, _, _)
ExtractAll(files, f, segmentId) ==
    IF f > Len(files) THEN <<>>
    ELSE LET here == ExtractPart(files[f].path, files[f].paras, 1, segmentId)
         IN here \o ExtractAll(files, f + 1, segmentId + Len(here))

\* the segments parseDocx / parsePptx return
parseSegments(files) == ExtractAll(files, 1, 0)

\* segmentsByFile.get(xmlPath)
RECURSIVE FileSegments(_, _)
FileSegments(segs, path) ==
    IF segs = <<>> THEN <<>>
    ELSE (IF Head(segs).xmlPath = path THEN <<Head(segs)>> ELSE <<>>)
         \o FileSegments(Tail(segs), path)

\* mutant of highlightParagraphRed: only the first run is flagged
highlightFirstRunOnly(p) ==
    [i \in 1..Len(p) |-> IF i = 1 THEN [p[i] EXCEPT !.hl = "red"] ELSE p[i]]

\* highlightParagraphRed / highlightPptxParagraphRed: every run gets the red
\* highlight in place of the one it had
highlightParagraphRed(p) == [i \in 1..Len(p) |-> [p[i] EXCEPT !.hl = "red"]]

\* replace text by index: unit i of contentParas pairs with segment i
IndexPairs(contentParas, fileSegments, m) ==
    [i \in 1..Min(Len(contentParas), Len(fileSegments)) |->
        [seg |-> fileSegments[i].id, element |-> contentParas[i],
         act |-> IF fileSegments[i].id \in DOMAIN m THEN "replace" ELSE "highlight"]]

\* mutant of LegacyPairs: segIdx++ only happens for a segment with a translation
RECURSIVE LegacyPairsAdvanceOnReplace(_, _, _, _, _, _)
LegacyPairsAdvanceOnReplace(paras, contentParas, k, fileSegments, segIdx, m) ==
    IF k > Len(contentParas) \/ segIdx >= Len(fileSegments) THEN <<>>
    ELSE LET segment == fileSegments[segIdx + 1]
             paraText == extractTextFromParagraph(paras[contentParas[k]])
         IN IF Trim(paraText) = Trim(segment.text)
            THEN <<[seg |-> segment.id, element |-> contentParas[k],
                    act |-> IF segment.id \in DOMAIN m THEN "replace" ELSE "keep"]>>
                 \o LegacyPairsAdvanceOnReplace(paras, contentParas, k + 1, fileSegments,
                        IF segment.id \in DOMAIN m THEN segIdx + 1 ELSE segIdx, m)
            ELSE LegacyPairsAdvanceOnReplace(paras, contentParas, k + 1, fileSegments,
                                             segIdx, m)

\* part_002: a unit pairs with the current segment when the trimmed texts agree
RECURSIVE LegacyPairs(_, _, _, _, _, _)
LegacyPairs(paras, contentParas, k, fileSegments, segIdx, m) ==
    IF k > Len(contentParas) \/ segIdx >= Len(fileSegments) THEN <<>>
    ELSE LET segment == fileSegments[segIdx + 1]
             paraText == extractTextFromParagraph(paras[contentParas[k]])
         IN IF Trim(paraText) = Trim(segment.text)
            THEN <<[seg |-> segment.id, element |-> contentParas[k],
                    act |-> IF segment.id \in DOMAIN m THEN "replace" ELSE "keep"]>>
                 \o LegacyPairs(paras, contentParas, k + 1, fileSegments, segIdx + 1, m)
            ELSE LegacyPairs(paras, contentParas, k + 1, fileSegments, segIdx, m)

PairsFor(variant, paras, fileSegments, m) ==
    IF variant = "legacy"
    THEN LegacyPairs(paras, ContentParas(paras), 1, fileSegments, 0, m)
    ELSE IndexPairs(ContentParas(paras), fileSegments, m)

\* the units of a part after the loop over its pairs
ApplyPairs(variant, paras, pairs, m) ==
    [k \in 1..Len(paras) |->
        IF \E i \in 1..Len(pairs) : pairs[i].element = k
        THEN LET pr == pairs[CHOOSE i \in 1..Len(pairs) : pairs[i].element = k]
             IN IF pr.act = "replace"
                THEN replaceParagraphText(variant, paras[k], m[pr.seg])
                ELSE IF pr.act = "highlight" THEN highlightParagraphRed(paras[k])
                     ELSE paras[k]
        ELSE paras[k]]

\* mutant of RebuildFilesFrom: the loop ends after the part it starts with
RebuildFirstFileOnly(variant, files, segs, m, f) ==
    IF f > Len(files) THEN files
    ELSE LET fileSegments == FileSegments(segs, files[f].path)
         IN IF Len(fileSegments) = 0 THEN files
            ELSE [files EXCEPT ![f].paras =
                     ApplyPairs(variant, files[f].paras,
                                PairsFor(variant, files[f].paras, fileSegments, m), m)]

\* the whole loop of rebuildDocx / rebuildPptx over the parts, from part f on
RECURSIVE RebuildFilesFrom(_, _, _, _, _)
RebuildFilesFrom(variant, files, segs, m, f) ==
    IF f > Len(files) THEN files
    ELSE LET fileSegments == FileSegments(segs, files[f].path)
             done == IF Len(fileSegments) = 0 THEN files
                     ELSE [files EXCEPT ![f].paras =
                              ApplyPairs(variant, files[f].paras,
                                         PairsFor(variant, files[f].paras, fileSegments, m), m)]
         IN RebuildFilesFrom(variant, done, segs, m, f + 1)

\* the paths rebuildDocx / rebuildPptx write back with zip.file, in order: the
\* parts that hold at least one segment
RECURSIVE WrittenPaths(_, _, _)
WrittenPaths(files, segs, f) ==
    IF f > Len(files) THEN <<>>
    ELSE (IF Len(FileSegments(segs, files[f].path)) = 0 THEN <<>> ELSE <<files[f].path>>)
         \o WrittenPaths(files, segs, f + 1)

CountReplaced(pairs) == Cardinality({i \in 1..Len(pairs) : pairs[i].act = "replace"})

MaxParasPerPart == 2

\* the text-bearing parts of the archive, in the order they are parsed
PartPaths(variant) ==
    IF variant = "pptx" THEN <<"ppt/slides/slide1.xml", "ppt/slides/slide2.xml">>
    ELSE <<"word/document.xml", "word/header1.xml">>

\* a blank unit
UnitBlank == <<Run(<< <<" ">> >>, "none")>>

\* a unit of two text runs around a tab
UnitPlain == <<Run(<< <<"x">> >>, "yellow"), Run(<<>>, "none"),
               Run(<< <<" ">>, <<"y">> >>, "none")>>

\* a unit whose run the source document already highlights in red
UnitRed == <<Run(<< <<"z">> >>, "red")>>

DocUnitPool == {UnitBlank, UnitPlain, UnitRed}

MapTextPool == { <<"a", " ", "a">> }

Documents(variant) ==
    { [f \in 1..Len(PartPaths(variant)) |-> [path |-> PartPaths(variant)[f], paras |-> ps[f]]] :
        ps \in [1..Len(PartPaths(variant)) -> SeqsUpTo(DocUnitPool, MaxParasPerPart)] }

\* an entry of the archive that is no text-bearing part although it holds a
\* content unit: the presenter notes of a slide, the comments of a document
OtherEntry(variant) ==
    [path |-> IF variant = "pptx" THEN "ppt/notesSlides/notesSlide1.xml"
              ELSE "word/comments.xml",
     paras |-> <<UnitPlain>>]

\* the archives: the second text-bearing part, the other entry, the first
\* text-bearing part, in the order the archive lists them
Archives(variant) ==
    { <<doc[2], OtherEntry(variant), doc[1]>> : doc \in Documents(variant) }

\* /^word\/(header|footer)\d*\.xml$/i on the paths of the archives
IsHeaderFooterPath(path) == path = "word/header1.xml"

\* the number in /^ppt\/slides\/slide\d+\.xml$/i on the paths of the archives,
\* 0 where the path does not match
SlideNumber(path) ==
    IF path = "ppt/slides/slide1.xml" THEN 1
    ELSE IF path = "ppt/slides/slide2.xml" THEN 2
    ELSE 0

\* mutant of IsSlidePath: the notes of the slides are taken as slides
IsSlideOrNotesPath(path) == path # ""

IsSlidePath(path) == SlideNumber(path) > 0

\* slideXmlPaths.sort by slide number
SortBySlideNumber(entries) ==
    [k \in 1..Len(entries) |->
        entries[CHOOSE i \in 1..Len(entries) :
            Cardinality({j \in 1..Len(entries) :
                \/ SlideNumber(entries[j].path) < SlideNumber(entries[i].path)
                \/ (SlideNumber(entries[j].path) = SlideNumber(entries[i].path) /\ j < i)})
            = k - 1]]

\* textXmlPaths of parseDocx, slideXmlPaths of parsePptx, each with its parsed tree
TextParts(variant, entries) ==
    IF variant = "pptx"
    THEN SortBySlideNumber(SelectSeq(entries, LAMBDA e : IsSlidePath(e.path)))
    ELSE SelectSeq(entries, LAMBDA e : e.path = "word/document.xml")
         \o SelectSeq(entries, LAMBDA e : IsHeaderFooterPath(e.path))
         \o SelectSeq(entries, LAMBDA e : e.path = "word/footnotes.xml")
         \o SelectSeq(entries, LAMBDA e : e.path = "word/endnotes.xml")

\* zip.file(path, xml): the entry of that path gets the new content
ZipFile(entries, path, paras) ==
    [k \in 1..Len(entries) |->
        IF entries[k].path = path THEN [path |-> path, paras |-> paras] ELSE entries[k]]

InitRebuildVars ==
    /\ bVariant \in {"docx", "pptx", "legacy"}
    /\ zip \in Archives(bVariant)
    /\ xmlFiles = <<>>
    /\ xmlBefore = <<>>
    /\ bSegments = <<>>
    /\ bMapping = EmptyMap
    /\ filePos = 0
    /\ processedCount = 0
    /\ zipWritten = <<>>
    /\ paired = <<>>
    /\ bpc = "parse"

\* parseDocx / parsePptx, then the mapping alignment and review produce
ParseAndMap ==
    /\ bpc = "parse"
    /\ xmlFiles' = TextParts(bVariant, zip)
    /\ xmlBefore' = xmlFiles'
    /\ bSegments' = parseSegments(xmlFiles')
    /\ \E ids \in SUBSET {bSegments'[i].id : i \in 1..Len(bSegments')} :
          \E m \in [ids -> MapTextPool] : bMapping' = m
    /\ bpc' = "rebuild"
    /\ UNCHANGED <<bVariant, zip, filePos, processedCount, zipWritten, paired>>
    /\ UNCHANGED notRebuild

\* one iteration of for (const [xmlPath, doc] of xmlFiles) in rebuildDocx / rebuildPptx
RebuildFile ==
    /\ bpc = "rebuild" /\ filePos < Len(xmlFiles)
    /\ LET file == xmlFiles[filePos + 1]
           fileSegments == FileSegments(bSegments, file.path)
           pairs == PairsFor(bVariant, file.paras, fileSegments, bMapping)
       IN IF Len(fileSegments) = 0
          THEN UNCHANGED <<zip, xmlFiles, processedCount, zipWritten, paired>>
          ELSE /\ xmlFiles' = [xmlFiles EXCEPT ![filePos + 1].paras =
                                   ApplyPairs(bVariant, file.paras, pairs, bMapping)]
               /\ zip' = ZipFile(zip, file.path, xmlFiles'[filePos + 1].paras)
               /\ processedCount' = processedCount + CountReplaced(pairs)
               /\ zipWritten' = Append(zipWritten, file.path)
               /\ paired' = paired \o [i \in 1..Len(pairs) |->
                                [seg |-> pairs[i].seg, path |-> file.path,
                                 element |-> pairs[i].element, act |-> pairs[i].act]]
    /\ filePos' = filePos + 1
    /\ UNCHANGED <<bVariant, xmlBefore, bSegments, bMapping, bpc>>
    /\ UNCHANGED notRebuild

\* the loop is over: zip.generateAsync is awaited
RebuildGenerate ==
    /\ bpc = "rebuild" /\ filePos = Len(xmlFiles)
    /\ bpc' = "generate"
    /\ UNCHANGED <<bVariant, zip, xmlFiles, xmlBefore, bSegments, bMapping, filePos,
                   processedCount, zipWritten, paired>>
    /\ UNCHANGED notRebuild

\* the blob is returned
RebuildReturn ==
    /\ bpc = "generate"
    /\ bpc' = "done"
    /\ UNCHANGED <<bVariant, zip, xmlFiles, xmlBefore, bSegments, bMapping, filePos,
                   processedCount, zipWritten, paired>>
    /\ UNCHANGED notRebuild

NextRebuild ==
    \/ ParseAndMap
    \/ RebuildFile
    \/ RebuildGenerate
    \/ RebuildReturn

----------------------------------------------------------------------------
(* main.js: the page state, its event handlers and runPipeline                *)
(*                                                                            *)
(* A handler runs to its first await in one step; every await is a point      *)
(* where other handlers and other runs may run.  Consecutive sleeps with only *)
(* progress display between them are one wait.                                *)
(*                                                                            *)
(* The panels, the progress display and state.sourceFile (written, never      *)
(* read) are left out.  The translation area changes through its input event; *)
(* loading a .txt file into it ends in the same updateTextCounts.  The user   *)
(* owns one source file, a document or a presentation.                        *)

NoFile == [base |-> "", ext |-> "", parts |-> <<>>]

\* the source files a user may have: a document and a presentation, each of
\* two content units
FilePool ==
    { [base |-> "a", ext |-> "docx",
       parts |-> << [path |-> "word/document.xml",
                     paras |-> <<UnitPlain, UnitBlank, UnitRed>>] >>],
      [base |-> "b", ext |-> "pptx",
       parts |-> << [path |-> "ppt/slides/slide1.xml", paras |-> <<UnitPlain>>],
                    [path |-> "ppt/slides/slide2.xml", paras |-> <<UnitRed>>] >>] }

\* what the user can have in the translation area: nothing, one paragraph, two
TextareaPool == { <<>>, <<"b">>, <<"b", "\n", "b">> }

\* what the user can have typed in an input of the review modal
ReviewInputPool == { <<" ">>, <<" ", "c", " ">> }

NoBlob == [run |-> 0, isPptx |-> FALSE, source |-> NoFile, xmlFiles |-> <<>>]

\* nothing has been saved
NoSave == [name |-> "", ext |-> "", base |-> "", type |-> ""]

MaxRuns == 2

\* updateGenerateButton: the value it gives els.btnGenerate.disabled
GenerateDisabled(buffer, text) == ~(buffer # NoFile /\ Len(Trim(text)) > 0)

\* the parts parseDocx / parsePptx find in an archive: word/... or ppt/slides/...
parseArchive(isPptx, file) ==
    IF (isPptx /\ file.ext = "pptx") \/ (~isPptx /\ file.ext = "docx")
    THEN file.parts ELSE <<>>

InitPipeline ==
    /\ \E file \in FilePool : userFiles = {file}
    /\ stSourceBuffer = NoFile
    /\ stSourceFileName = ""
    /\ stFileType = ""
    /\ stTranslationText = <<>>
    /\ stGeneratedBlob = NoBlob
    /\ pendingReads = {}
    /\ quickParses = {}
    /\ btnDisabled = TRUE
    /\ modalShown = FALSE
    /\ reviewBody = <<>>
    /\ listeners = <<>>
    /\ runs = <<>>
    /\ saved = NoSave

\* handleSourceFile, up to reader.readAsArrayBuffer
handleSourceFile(file) ==
    /\ stSourceFileName' = file.base
    /\ stFileType' = file.ext
    /\ pendingReads' = pendingReads \cup {file}
    /\ UNCHANGED <<stSourceBuffer, stTranslationText, stGeneratedBlob, quickParses,
                   btnDisabled, modalShown, reviewBody, listeners, runs>>
    /\ UNCHANGED <<userFiles, saved, notPipeline>>

\* reader.onload, up to the await of the quick parse
SourceReadDone(file) ==
    /\ file \in pendingReads
    /\ stSourceBuffer' = file
    /\ pendingReads' = pendingReads \ {file}
    /\ quickParses' = quickParses \cup {file}
    /\ UNCHANGED <<stSourceFileName, stFileType, stTranslationText, stGeneratedBlob,
                   btnDisabled, modalShown, reviewBody, listeners, runs>>
    /\ UNCHANGED <<userFiles, saved, notPipeline>>

\* reader.onload after the quick parse: updateGenerateButton
QuickParseDone(file) ==
    /\ file \in quickParses
    /\ quickParses' = quickParses \ {file}
    /\ btnDisabled' = GenerateDisabled(stSourceBuffer, stTranslationText)
    /\ UNCHANGED <<stSourceBuffer, stSourceFileName, stFileType, stTranslationText,
                   stGeneratedBlob, pendingReads, modalShown, reviewBody, listeners,
                   runs>>
    /\ UNCHANGED <<userFiles, saved, notPipeline>>

removeSourceFile ==
    /\ stSourceBuffer' = NoFile
    /\ stSourceFileName' = ""
    /\ stFileType' = ""
    /\ btnDisabled' = GenerateDisabled(NoFile, stTranslationText)
    /\ UNCHANGED <<stTranslationText, stGeneratedBlob, pendingReads, quickParses,
                   modalShown, reviewBody, listeners, runs>>
    /\ UNCHANGED <<userFiles, saved, notPipeline>>

\* the textarea's input event
updateTextCounts(text) ==
    /\ stTranslationText' = text
    /\ btnDisabled' = GenerateDisabled(stSourceBuffer, text)
    /\ UNCHANGED <<stSourceBuffer, stSourceFileName, stFileType, stGeneratedBlob,
                   pendingReads, quickParses, modalShown, reviewBody, listeners, runs>>
    /\ UNCHANGED <<userFiles, saved, notPipeline>>

NewRun ==
    [pc |-> "analyze", isPptx |-> (stFileType = "pptx"), buffer |-> NoFile,
     xmlFiles |-> <<>>, segments |-> <<>>, mapping |-> EmptyMap, unmatched |-> <<>>,
     outcome |-> "none", zipWritten |-> <<>>]

\* a run that has returned: its locals are gone, what it met is kept as history
EndedRun(run, how) ==
    [pc |-> how, isPptx |-> run.isPptx, buffer |-> NoFile, xmlFiles |-> <<>>,
     segments |-> <<>>, mapping |-> EmptyMap, unmatched |-> run.unmatched,
     outcome |-> run.outcome, zipWritten |-> <<>>]

\* a click on the generate button: runPipeline up to await sleep(200)
runPipeline ==
    /\ ~btnDisabled
    /\ Len(runs) < MaxRuns
    /\ runs' = Append(runs, NewRun)
    /\ btnDisabled' = TRUE
    /\ UNCHANGED <<stSourceBuffer, stSourceFileName, stFileType, stTranslationText,
                   stGeneratedBlob, pendingReads, quickParses, modalShown, reviewBody,
                   listeners>>
    /\ UNCHANGED <<userFiles, saved, notPipeline>>

\* Step 1 and 2: the parse of state.sourceBuffer; a null buffer throws, and the
\* run ends through catch and finally (resetButton)
RunParse(r) ==
    /\ runs[r].pc = "analyze"
    /\ IF stSourceBuffer = NoFile
       THEN /\ runs' = [runs EXCEPT ![r] = EndedRun(runs[r], "failed")]
            /\ btnDisabled' = GenerateDisabled(stSourceBuffer, stTranslationText)
       ELSE /\ runs' = [runs EXCEPT
                  ![r].pc = "match",
                  ![r].buffer = stSourceBuffer,
                  ![r].xmlFiles = parseArchive(runs[r].isPptx, stSourceBuffer),
                  ![r].segments =
                      parseSegments(parseArchive(runs[r].isPptx, stSourceBuffer))]
            /\ UNCHANGED btnDisabled
    /\ UNCHANGED <<stSourceBuffer, stSourceFileName, stFileType, stTranslationText,
                   stGeneratedBlob, pendingReads, quickParses, modalShown, reviewBody,
                   listeners>>
    /\ UNCHANGED <<userFiles, saved, notPipeline>>

\* Step 3: matchTexts(segments, state.translationText), up to await sleep(300)
RunMatch(r) ==
    /\ runs[r].pc = "match"
    /\ runs' = [runs EXCEPT
          ![r].pc = "matched",
          ![r].mapping = StrictMapping(runs[r].segments,
                                       splitIntoParagraphs(stTranslationText)),
          ![r].unmatched = StrictUnmatched(runs[r].segments,
                                           splitIntoParagraphs(stTranslationText))]
    /\ UNCHANGED <<stSourceBuffer, stSourceFileName, stFileType, stTranslationText,
                   stGeneratedBlob, pendingReads, quickParses, btnDisabled, modalShown,
                   reviewBody, listeners>>
    /\ UNCHANGED <<userFiles, saved, notPipeline>>

\* mutant of needsReview: a single unmatched segment is not worth a review
needsReviewSeveral(unmatchedList) == Len(unmatchedList) > 1

\* if (unmatched.length > 0)
needsReview(unmatchedList) == Len(unmatchedList) > 0

\* after the match: showMatchReview up to its promise, or on to await sleep(200)
RunAfterMatch(r) ==
    /\ runs[r].pc = "matched"
    /\ IF needsReview(runs[r].unmatched)
       THEN /\ reviewBody' = [i \in 1..Len(runs[r].unmatched) |-> runs[r].unmatched[i].id]
            /\ modalShown' = TRUE
            /\ listeners' = Append(listeners, r)
            /\ runs' = [runs EXCEPT ![r].pc = "review"]
       ELSE /\ runs' = [runs EXCEPT ![r].pc = "rebuildWait"]
            /\ UNCHANGED <<reviewBody, modalShown, listeners>>
    /\ UNCHANGED <<stSourceBuffer, stSourceFileName, stFileType, stTranslationText,
                   stGeneratedBlob, pendingReads, quickParses, btnDisabled>>
    /\ UNCHANGED <<userFiles, saved, notPipeline>>

Listening(r) == \E i \in 1..Len(listeners) : listeners[i] = r

\* handleConfirm's loop over the inputs of els.matchReviewBody
RECURSIVE SetInputs(_, _, _, _)
SetInputs(m, body, inputs, i) ==
    IF i > Len(body) THEN m
    ELSE SetInputs(IF Len(Trim(inputs[i])) > 0 THEN MapSet(m, body[i], Trim(inputs[i]))
                   ELSE m,
                   body, inputs, i + 1)

\* a click on a button of the modal runs the handler of every run registered on it
ModalFrame ==
    /\ modalShown' = FALSE
    /\ listeners' = <<>>
    /\ UNCHANGED <<stSourceBuffer, stSourceFileName, stFileType, stTranslationText,
                   stGeneratedBlob, pendingReads, quickParses, btnDisabled, reviewBody>>
    /\ UNCHANGED <<userFiles, saved, notPipeline>>

\* handleClose: cleanup, resolve(false)
handleClose ==
    /\ listeners # <<>>
    /\ runs' = [r \in 1..Len(runs) |->
                  IF Listening(r) THEN [runs[r] EXCEPT !.pc = "resolved", !.outcome = "close"]
                  ELSE runs[r]]
    /\ ModalFrame

\* handleSkip: cleanup, resolve(true)
handleSkip ==
    /\ listeners # <<>>
    /\ runs' = [r \in 1..Len(runs) |->
                  IF Listening(r) THEN [runs[r] EXCEPT !.pc = "resolved", !.outcome = "skip"]
                  ELSE runs[r]]
    /\ ModalFrame

\* handleConfirm: the inputs' trimmed texts enter the mapping, cleanup, resolve(true)
handleConfirm ==
    /\ listeners # <<>>
    /\ \E inputs \in [1..Len(reviewBody) -> ReviewInputPool] :
          runs' = [r \in 1..Len(runs) |->
                     IF Listening(r)
                     THEN [runs[r] EXCEPT !.pc = "resolved", !.outcome = "confirm",
                              !.mapping = SetInputs(runs[r].mapping, reviewBody, inputs, 1)]
                     ELSE runs[r]]
    /\ ModalFrame

\* mutant of shouldContinue: a closed review continues like a skipped one
shouldContinueAlways(outcome) == TRUE

\* the value the promise of showMatchReview resolves with: false on close
shouldContinue(outcome) == outcome # "close"

\* the run resumes from await showMatchReview
RunAfterReview(r) ==
    /\ runs[r].pc = "resolved"
    /\ IF ~shouldContinue(runs[r].outcome)
       THEN /\ runs' = [runs EXCEPT ![r] = EndedRun(runs[r], "aborted")]
            /\ btnDisabled' = GenerateDisabled(stSourceBuffer, stTranslationText)
       ELSE /\ runs' = [runs EXCEPT ![r].pc = "rebuildWait"]
            /\ UNCHANGED btnDisabled
    /\ UNCHANGED <<stSourceBuffer, stSourceFileName, stFileType, stTranslationText,
                   stGeneratedBlob, pendingReads, quickParses, modalShown, reviewBody,
                   listeners>>
    /\ UNCHANGED <<userFiles, saved, notPipeline>>

\* Step 4: rebuildDocx / rebuildPptx up to await zip.generateAsync
RunRebuild(r) ==
    /\ runs[r].pc = "rebuildWait"
    /\ runs' = [runs EXCEPT
          ![r].pc = "generating",
          ![r].xmlFiles = RebuildFilesFrom(IF runs[r].isPptx THEN "pptx" ELSE "docx",
                                           runs[r].xmlFiles, runs[r].segments,
                                           runs[r].mapping, 1),
          ![r].zipWritten = WrittenPaths(runs[r].xmlFiles, runs[r].segments, 1)]
    /\ UNCHANGED <<stSourceBuffer, stSourceFileName, stFileType, stTranslationText,
                   stGeneratedBlob, pendingReads, quickParses, btnDisabled, modalShown,
                   reviewBody, listeners>>
    /\ UNCHANGED <<userFiles, saved, notPipeline>>

\* state.generatedBlob = blob, up to await sleep(500)
RunBlob(r) ==
    /\ runs[r].pc = "generating"
    /\ stGeneratedBlob' = [run |-> r, isPptx |-> runs[r].isPptx,
                           source |-> runs[r].buffer, xmlFiles |-> runs[r].xmlFiles]
    /\ runs' = [runs EXCEPT ![r].pc = "finalize"]
    /\ UNCHANGED <<stSourceBuffer, stSourceFileName, stFileType, stTranslationText,
                   pendingReads, quickParses, btnDisabled, modalShown, reviewBody,
                   listeners>>
    /\ UNCHANGED <<userFiles, saved, notPipeline>>

\* the result is shown; finally: resetButton
RunFinish(r) ==
    /\ runs[r].pc = "finalize"
    /\ runs' = [runs EXCEPT ![r] = EndedRun(runs[r], "done")]
    /\ btnDisabled' = GenerateDisabled(stSourceBuffer, stTranslationText)
    /\ UNCHANGED <<stSourceBuffer, stSourceFileName, stFileType, stTranslationText,
                   stGeneratedBlob, pendingReads, quickParses, modalShown, reviewBody,
                   listeners>>
    /\ UNCHANGED <<userFiles, saved, notPipeline>>

\* runPipeline, clicked for the first time
runPipelineOnce ==
    /\ runs = <<>>
    /\ runPipeline

\* handleDownload: saveAs(state.generatedBlob, filename)
handleDownload ==
    /\ stGeneratedBlob # NoBlob
    /\ saved' = [name |-> stSourceFileName,
                 ext |-> IF stFileType = "" THEN "docx" ELSE stFileType,
                 base |-> stGeneratedBlob.source.base,
                 type |-> stGeneratedBlob.source.ext]
    /\ UNCHANGED <<stSourceBuffer, stSourceFileName, stFileType, stTranslationText,
                   stGeneratedBlob, pendingReads, quickParses, btnDisabled, modalShown,
                   reviewBody, listeners, runs>>
    /\ UNCHANGED <<userFiles, notPipeline>>

\* the page with a user who owns both source files
InitDownload ==
    /\ userFiles = FilePool
    /\ stSourceBuffer = NoFile
    /\ stSourceFileName = ""
    /\ stFileType = ""
    /\ stTranslationText = <<>>
    /\ stGeneratedBlob = NoBlob
    /\ pendingReads = {}
    /\ quickParses = {}
    /\ btnDisabled = TRUE
    /\ modalShown = FALSE
    /\ reviewBody = <<>>
    /\ listeners = <<>>
    /\ runs = <<>>
    /\ saved = NoSave

NextPipeline ==
    \/ \E file \in userFiles : handleSourceFile(file)
    \/ \E file \in userFiles : SourceReadDone(file)
    \/ \E file \in userFiles : QuickParseDone(file)
    \/ removeSourceFile
    \/ \E text \in TextareaPool : updateTextCounts(text)
    \/ runPipeline
    \/ \E r \in 1..Len(runs) : RunParse(r)
    \/ \E r \in 1..Len(runs) : RunMatch(r)
    \/ \E r \in 1..Len(runs) : RunAfterMatch(r)
    \/ handleClose
    \/ handleSkip
    \/ handleConfirm
    \/ \E r \in 1..Len(runs) : RunAfterReview(r)
    \/ \E r \in 1..Len(runs) : RunRebuild(r)
    \/ \E r \in 1..Len(runs) : RunBlob(r)
    \/ \E r \in 1..Len(runs) : RunFinish(r)

----------------------------------------------------------------------------
(* Specifications: each runs one part of the program, the rest stands still *)

MatchIdle ==
    /\ strategy = "none" /\ sourceSegments = <<>> /\ translationText = <<>>
    /\ translatedParagraphs = <<>> /\ mpc = "idle" /\ mapping = EmptyMap
    /\ unmatched = <<>> /\ stats = NewStats(0) /\ tIdx = 0 /\ usedTranslations = {}
    /\ segPos = 0 /\ unusedTranslations = <<>> /\ stillUnmatched = <<>> /\ unPos = 0
    /\ assigned = <<>>

ReplaceIdle ==
    /\ rVariant = "none" /\ para = <<>> /\ paraBefore = <<>> /\ newText = <<>>
    /\ rpc = "idle"

RebuildIdle ==
    /\ bVariant = "none" /\ zip = <<>> /\ xmlFiles = <<>> /\ xmlBefore = <<>> /\ bSegments = <<>>
    /\ bMapping = EmptyMap /\ filePos = 0 /\ processedCount = 0 /\ zipWritten = <<>>
    /\ paired = <<>> /\ bpc = "idle"

PipelineIdle ==
    /\ userFiles = {} /\ stSourceBuffer = NoFile /\ stSourceFileName = ""
    /\ stFileType = "" /\ stTranslationText = <<>> /\ stGeneratedBlob = NoBlob
    /\ pendingReads = {} /\ quickParses = {} /\ btnDisabled = TRUE
    /\ modalShown = FALSE /\ reviewBody = <<>> /\ listeners = <<>> /\ runs = <<>>
    /\ saved = NoSave

InitSpecMatch == InitMatch /\ ReplaceIdle /\ RebuildIdle /\ PipelineIdle

InitSpecReplace == InitReplaceVars /\ MatchIdle /\ RebuildIdle /\ PipelineIdle

InitSpecRebuild == InitRebuildVars /\ MatchIdle /\ ReplaceIdle /\ PipelineIdle

InitSpecPipeline == InitPipeline /\ MatchIdle /\ ReplaceIdle /\ RebuildIdle

SpecMatch == InitSpecMatch /\ [][NextMatch]_vars

SpecReplace == InitSpecReplace /\ [][NextReplace]_vars

SpecRebuild == InitSpecRebuild /\ [][NextRebuild]_vars

SpecPipeline == InitSpecPipeline /\ [][NextPipeline]_vars

\* the page of a user who owns both source files, generates once and may
\* download
NextDownload ==
    \/ \E file \in userFiles : handleSourceFile(file)
    \/ \E file \in userFiles : SourceReadDone(file)
    \/ \E file \in userFiles : QuickParseDone(file)
    \/ removeSourceFile
    \/ \E text \in TextareaPool : updateTextCounts(text)
    \/ runPipelineOnce
    \/ \E r \in 1..Len(runs) : RunParse(r)
    \/ \E r \in 1..Len(runs) : RunMatch(r)
    \/ \E r \in 1..Len(runs) : RunAfterMatch(r)
    \/ handleClose
    \/ handleSkip
    \/ handleConfirm
    \/ \E r \in 1..Len(runs) : RunAfterReview(r)
    \/ \E r \in 1..Len(runs) : RunRebuild(r)
    \/ \E r \in 1..Len(runs) : RunBlob(r)
    \/ \E r \in 1..Len(runs) : RunFinish(r)
    \/ handleDownload

InitSpecDownload == InitDownload /\ MatchIdle /\ ReplaceIdle /\ RebuildIdle

SpecDownload == InitSpecDownload /\ [][NextDownload]_vars

\* the result for an empty segment list is empty and all its counts are zero
EmptyResult ==
    /\ mapping = EmptyMap /\ unmatched = <<>>
    /\ stats.total = 0 /\ stats.matched = 0 /\ stats.fuzzy = 0 /\ stats.unmatched = 0

\* C12 as stated: with an empty segment list, for any translation text,
\* matchTexts in either strategy returns an empty mapping, an empty unmatched
\* list and stats whose total, matched, fuzzy and unmatched are all 0.
C12_EmptySegmentsZeroStats ==
    (MatchDone /\ sourceSegments = <<>>) => EmptyResult

\* C12, the part that holds: with an empty segment list the adaptive strategy
\* returns the empty result for any translation text, the strict strategy
\* returns an empty mapping, an empty unmatched list and total, matched and
\* unmatched of 0, and its fuzzy count is the number of translated paragraphs.
C12_EmptySegmentsFuzzyIsParagraphs ==
    (MatchDone /\ sourceSegments = <<>>) =>
        /\ mapping = EmptyMap /\ unmatched = <<>>
        /\ stats.total = 0 /\ stats.matched = 0 /\ stats.unmatched = 0
        /\ stats.fuzzy = IF strategy = "strict" THEN Len(translatedParagraphs) ELSE 0

\* the strict strategy has returned for no segments and several paragraphs
C12_Witness ==
    /\ MatchDone /\ strategy = "strict" /\ sourceSegments = <<>>
    /\ Len(translatedParagraphs) >= 2 /\ stats.method = "sequential-merge"

\* C22: on return from matchTexts, in both strategies, the unmatched list is
\* the list of the segments whose id has no entry in the mapping, in segment
\* order and each once; a segment Tier 3 rescued is not in it.
C22_UnmatchedIsUnmapped ==
    MatchDone =>
        /\ unmatched = SelectSeq(sourceSegments, LAMBDA seg : seg.id \notin DOMAIN mapping)
        /\ \A k \in 1..Len(assigned) :
               assigned[k].tier = 3 =>
                   \A i \in 1..Len(unmatched) : unmatched[i].id # assigned[k].seg

\* the adaptive cascade returned after Tier 3 rescued one deferred segment and
\* left another unmatched
C22_Witness ==
    /\ MatchDone /\ strategy = "adaptive"
    /\ \E k \in 1..Len(assigned) : assigned[k].tier = 3
    /\ Len(unmatched) >= 1

\* C25 as stated: in every result of matchTexts, in both strategies,
\* stats.fuzzy <= stats.matched <= stats.total.
C25_FuzzyCountsMatched ==
    MatchDone => (stats.fuzzy <= stats.matched /\ stats.matched <= stats.total)

\* C25, what holds: stats.matched <= stats.total in both strategies; in the
\* adaptive cascade stats.fuzzy <= stats.matched; in the strict strategy
\* stats.fuzzy is the number of translated paragraphs beyond the number of
\* segments, 0 when there are none.
C25_FuzzyCountsMatchedOrOverflow ==
    MatchDone =>
        /\ stats.matched <= stats.total
        /\ strategy = "adaptive" => stats.fuzzy <= stats.matched
        /\ strategy = "strict" =>
               stats.fuzzy = Max(0, Len(translatedParagraphs) - Len(sourceSegments))

\* the strict strategy merged more overflow paragraphs than it has segments
C25_Witness ==
    /\ MatchDone /\ strategy = "strict" /\ stats.method = "sequential-merge"
    /\ Len(sourceSegments) >= 1
    /\ stats.fuzzy > stats.matched

\* C26: on return from matchTexts, in both strategies, stats.matched is the
\* number of entries of the mapping and stats.unmatched is the length of the
\* unmatched list (the segments' ids are unique).
C26_CountersAgree ==
    MatchDone =>
        /\ stats.matched = Cardinality(DOMAIN mapping)
        /\ stats.unmatched = Len(unmatched)

\* the adaptive cascade returned with two segments matched, one of them by
\* Tier 3, and one left unmatched
C26_Witness ==
    /\ MatchDone /\ strategy = "adaptive"
    /\ stats.matched = 2 /\ stats.unmatched = 1
    /\ \E k \in 1..Len(assigned) : assigned[k].tier = 3
    /\ Cardinality(SegmentIds) = Len(sourceSegments)

\* the history entries Tier 2 wrote
Tier2Entries == {k \in 1..Len(assigned) : assigned[k].tier = 2}

\* C21: a paragraph Tier 2 assigns lies at the scan pointer or up to 4 after
\* it; the scan pointer is that index + 1 afterwards; the indices Tier 2
\* assigns to successive segments strictly increase, with at most 4 paragraphs
\* skipped between two consecutive ones.
C21_WindowAndPointer ==
    strategy = "adaptive" =>
        \A k \in Tier2Entries :
            /\ assigned[k].tIdxBefore <= assigned[k].idx
            /\ assigned[k].idx <= assigned[k].tIdxBefore + 4
            /\ IF k + 1 \in Tier2Entries
               THEN /\ assigned[k + 1].tIdxBefore = assigned[k].idx + 1
                    /\ assigned[k + 1].idx > assigned[k].idx
                    /\ assigned[k + 1].idx - assigned[k].idx - 1 <= 4
               ELSE tIdx = assigned[k].idx + 1

\* Tier 2 took the last slot of a full window for one segment and, for another,
\* a paragraph after a skipped one
C21_Witness ==
    /\ MatchDone /\ strategy = "adaptive"
    /\ \E k \in Tier2Entries : assigned[k].idx = assigned[k].tIdxBefore + 4
    /\ Len(translatedParagraphs) = 5

\* what C24 asks of one iteration of the Tier 2 loop
C24_Step ==
    (mpc = "level2" /\ segPos' = segPos + 1) =>
        LET segment == sourceSegments[segPos + 1]
        IN /\ \A u \in usedTranslations : u < tIdx
           /\ IF tIdx < Len(translatedParagraphs)
              THEN /\ ~RatLT(Level2Best(segment, translatedParagraphs, tIdx,
                                        usedTranslations).bestScore, Rat(3, 10))
                   /\ Len(assigned') = Len(assigned) + 1
                   /\ assigned'[Len(assigned')].seg = segment.id
                   /\ assigned'[Len(assigned')].branch = "scored"
                   /\ unmatched' = unmatched
              ELSE /\ unmatched' = Append(unmatched, segment)
                   /\ assigned' = assigned

\* C24: in every iteration of the Tier 2 loop no consumed paragraph lies at or
\* after the scan pointer; while a paragraph remains at the scan pointer the
\* best score is at least 0.3 and the segment is matched by the scored branch,
\* never by the positional fallback; the segment is deferred to Tier 3 exactly
\* when the scan pointer has passed the last paragraph.
C24_ScoredBranchOnly == [][C24_Step]_vars

\* Tier 2 is over with a segment matched by the scored branch at a score below
\* 0.6 and another deferred to Tier 3
C24_Witness ==
    /\ mpc = "level3" /\ Len(unmatched) >= 1
    /\ \E k \in Tier2Entries : assigned[k].branch = "scored"
    /\ stats.fuzzy >= 1
    /\ tIdx = Len(translatedParagraphs)

----------------------------------------------------------------------------
(* Claims about text replacement in one unit *)

ReplaceDone == rpc = "done"

\* the text a read of the unit returns: all runs' text in run order
FlatText(p) == extractTextFromParagraph(p)

\* C7: for a unit with N >= 2 text-carrying runs and any new text, after
\* replaceParagraphText / replacePptxParagraphText the concatenation of all runs'
\* text in run order is the new text exactly.
C7_SplitConservation ==
    (ReplaceDone /\ Len(TextRuns(paraBefore)) >= 2) => FlatText(para) = newText

\* three text runs, the words of the new text used up before the last run
C7_Witness ==
    /\ ReplaceDone /\ rVariant = "docx"
    /\ Len(TextRuns(paraBefore)) = 3
    /\ Len(newText) >= 3
    /\ RunText(para[TextRuns(paraBefore)[3]]) = <<>>
    /\ RunText(para[TextRuns(paraBefore)[1]]) # <<>>

\* C8: for a unit with exactly one text-carrying run, rewriting it with text T
\* makes the unit's flattened text exactly T.
C8_SingleRun ==
    (ReplaceDone /\ Len(TextRuns(paraBefore)) = 1) => FlatText(para) = newText

\* one text run of two text nodes beside a run without text
C8_Witness ==
    /\ ReplaceDone /\ rVariant = "pptx"
    /\ Len(paraBefore) = 2
    /\ Len(TextRuns(paraBefore)) = 1
    /\ Len(paraBefore[TextRuns(paraBefore)[1]].nodes) = 2
    /\ Len(newText) = 3

\* the rebuilders that split on words: docxRebuilder.js and pptxRebuilder.js
WordSplitVariant == rVariant \in {"docx", "pptx"}

\* the call went into the multi-run split
MultiRunSplit == ReplaceDone /\ WordSplitVariant /\ Len(TextRuns(paraBefore)) >= 2

\* the text the k-th text run holds after the replacement
ChunkOf(k) == RunText(para[TextRuns(paraBefore)[k]])

\* the offset in the unit's text at which the chunk of the k-th text run ends
RECURSIVE ChunkEnd(_)
ChunkEnd(k) == IF k = 0 THEN 0 ELSE ChunkEnd(k - 1) + Len(ChunkOf(k))

\* offset o lies between two characters of one token of text: two characters
\* of a word, or two of a whitespace run
InsideToken(text, o) ==
    /\ 0 < o /\ o < Len(text)
    /\ (text[o] \in Whitespace) = (text[o + 1] \in Whitespace)

\* C17: in the multi-run split the runs' chunks make up the new text and no
\* chunk ends between two characters of one token of the new text, word or
\* whitespace run: each chunk is a concatenation of whole tokens.
C17_WholeTokens ==
    MultiRunSplit =>
        /\ FlatText(para) = newText
        /\ \A k \in 1..Len(TextRuns(paraBefore)) : ~InsideToken(newText, ChunkEnd(k))

\* a split in which a word of three or more characters went whole to the first
\* of two text runs although that run's share of the text ends inside it
C17_Witness ==
    /\ MultiRunSplit /\ Len(TextRuns(paraBefore)) = 2
    /\ Len(ChunkOf(1)) >= 3 /\ Len(ChunkOf(2)) >= 1
    /\ \A c \in 1..Len(ChunkOf(1)) : ChunkOf(1)[c] \notin Whitespace
    /\ InsideToken(newText,
                   TargetLength(Len(RunText(paraBefore[TextRuns(paraBefore)[1]])),
                                TotalOriginalLen(paraBefore), Len(newText)))

\* target of the k-th text run
TargetOf(k) ==
    TargetLength(Len(RunText(paraBefore[TextRuns(paraBefore)[k]])),
                 TotalOriginalLen(paraBefore), Len(newText))

\* the chunk is one token: all of it whitespace or none of it
OneToken(chunk) ==
    \/ \A c \in 1..Len(chunk) : chunk[c] \in Whitespace
    \/ \A c \in 1..Len(chunk) : chunk[c] \notin Whitespace

\* C18 as stated: in the multi-run split the chunk of every non-last text run
\* is at most 1.3 times its target long.
C18_ChunkWithinOvershoot ==
    MultiRunSplit =>
        \A k \in 1..(Len(TextRuns(paraBefore)) - 1) : 10 * Len(ChunkOf(k)) <= 13 * TargetOf(k)

\* C18, what holds: the chunk of a non-last text run is at most 1.3 times its
\* target long, or it is a single token of the new text.
C18_ChunkWithinOvershootOrOneToken ==
    MultiRunSplit =>
        \A k \in 1..(Len(TextRuns(paraBefore)) - 1) :
            10 * Len(ChunkOf(k)) <= 13 * TargetOf(k) \/ OneToken(ChunkOf(k))

\* a non-last run took several tokens and went past its target, within the limit
C18_Witness ==
    /\ MultiRunSplit
    /\ \E k \in 1..(Len(TextRuns(paraBefore)) - 1) :
           /\ ~OneToken(ChunkOf(k))
           /\ Len(ChunkOf(k)) > TargetOf(k)

\* the runs of p that carry text, in order
OnlyTextRuns(p) == [k \in 1..Len(TextRuns(p)) |-> p[TextRuns(p)[k]]]

\* C19: a run whose original text is empty is the same after the replacement,
\* and the text runs get what they would get were the runs without text not
\* in the unit at all.
C19_EmptyRunsUntouched ==
    ReplaceDone =>
        /\ Len(para) = Len(paraBefore)
        /\ \A i \in 1..Len(paraBefore) :
               RunText(paraBefore[i]) = <<>> => para[i] = paraBefore[i]
        /\ [k \in 1..Len(TextRuns(paraBefore)) |-> para[TextRuns(paraBefore)[k]]]
               = replaceParagraphText(rVariant, OnlyTextRuns(paraBefore), newText)

\* a run with an empty text node stands between two text runs that both got
\* new text
C19_Witness ==
    /\ MultiRunSplit /\ Len(paraBefore) = 3
    /\ paraBefore[2] = Run(<< <<>> >>, "none")
    /\ TextRuns(paraBefore) = <<1, 3>>
    /\ Len(ChunkOf(1)) >= 1 /\ Len(ChunkOf(2)) >= 1
    /\ ChunkOf(1) # RunText(paraBefore[1])

\* C20: the replacement keeps the number of runs, and in every run the number
\* of text nodes and the highlight; in every text-carrying run the first text
\* node holds the whole chunk of the run and every further text node is empty.
C20_StructureKept ==
    ReplaceDone =>
        /\ Len(para) = Len(paraBefore)
        /\ \A i \in 1..Len(para) :
               /\ Len(para[i].nodes) = Len(paraBefore[i].nodes)
               /\ para[i].hl = paraBefore[i].hl
        /\ \A k \in 1..Len(TextRuns(paraBefore)) :
               LET run == para[TextRuns(paraBefore)[k]]
               IN /\ run.nodes[1].text = ChunksFor(rVariant, paraBefore, newText)[k]
                  /\ \A j \in 2..Len(run.nodes) : run.nodes[j].text = <<>>

\* a unit of three runs, one without text nodes and one text run of two text
\* nodes that now holds its chunk in the first
C20_Witness ==
    /\ MultiRunSplit /\ Len(paraBefore) = 3
    /\ \E i \in 1..3 : paraBefore[i].nodes = <<>>
    /\ \E i \in 1..3 :
           /\ Len(paraBefore[i].nodes) = 2
           /\ Len(para[i].nodes[1].text) >= 2
           /\ paraBefore[i].nodes[2].text # <<>>


----------------------------------------------------------------------------
(* Claims about the rewrite of a document *)

RebuildLoopDone == bpc \in {"generate", "done"}

HighlightingVariant == bVariant \in {"docx", "pptx"}

\* the unit of a segment, as parsed and as rewritten
UnitBefore(seg) ==
    xmlBefore[CHOOSE f \in 1..Len(xmlBefore) : xmlBefore[f].path = seg.xmlPath].paras[seg.element]

UnitAfter(seg) ==
    xmlFiles[CHOOSE f \in 1..Len(xmlFiles) : xmlFiles[f].path = seg.xmlPath].paras[seg.element]

\* every run of an unmatched unit is flagged red and keeps its text nodes
UnmatchedFlagged ==
    \A i \in 1..Len(bSegments) :
        bSegments[i].id \notin DOMAIN bMapping =>
            /\ Len(UnitAfter(bSegments[i])) = Len(UnitBefore(bSegments[i]))
            /\ \A r \in 1..Len(UnitAfter(bSegments[i])) :
                  /\ UnitAfter(bSegments[i])[r].hl = "red"
                  /\ UnitAfter(bSegments[i])[r].nodes = UnitBefore(bSegments[i])[r].nodes

\* C9 as stated: after the rewrite every run of every unmatched content unit
\* carries the red highlight and the unit keeps its original text, and no
\* matched unit carries the red highlight.
C9_FlagOnlyUnmatched ==
    (RebuildLoopDone /\ HighlightingVariant) =>
        /\ UnmatchedFlagged
        /\ \A i \in 1..Len(bSegments) :
              bSegments[i].id \in DOMAIN bMapping =>
                  \A r \in 1..Len(UnitAfter(bSegments[i])) :
                      UnitAfter(bSegments[i])[r].hl # "red"

\* C9, amended: after the rewrite every run of every unmatched content unit
\* carries the red highlight and the unit keeps its original text, and the
\* rewrite leaves the highlight of every run of a matched unit as the source
\* document had it (so a matched unit is red only where the source was).
C9_FlagAddedOnlyToUnmatched ==
    (RebuildLoopDone /\ HighlightingVariant) =>
        /\ UnmatchedFlagged
        /\ \A i \in 1..Len(bSegments) :
              bSegments[i].id \in DOMAIN bMapping =>
                  /\ Len(UnitAfter(bSegments[i])) = Len(UnitBefore(bSegments[i]))
                  /\ \A r \in 1..Len(UnitAfter(bSegments[i])) :
                        UnitAfter(bSegments[i])[r].hl = UnitBefore(bSegments[i])[r].hl

\* a finished rewrite of a part holding an unmatched unit of several runs,
\* one of them highlighted otherwise before, next to a matched unit
C9_Witness ==
    /\ RebuildLoopDone /\ HighlightingVariant
    /\ \E i, j \in 1..Len(bSegments) :
          /\ bSegments[i].id \notin DOMAIN bMapping
          /\ bSegments[j].id \in DOMAIN bMapping
          /\ bSegments[i].xmlPath = bSegments[j].xmlPath
          /\ Len(UnitBefore(bSegments[i])) = 3
          /\ UnitBefore(bSegments[i])[1].hl = "yellow"
          /\ UnitAfter(bSegments[i])[1].hl = "red"
          /\ extractTextFromParagraph(UnitAfter(bSegments[j])) = bMapping[bSegments[j].id]

\* the number of content units in parts f.. of a document
RECURSIVE ContentUnitCount(_, _)
ContentUnitCount(files, f) ==
    IF f > Len(files) THEN 0
    ELSE Len(ContentParas(files[f].paras)) + ContentUnitCount(files, f + 1)

\* C13: the extracted list has segments[i].id = i from 0 on, across the parts;
\* each segment comes from a unit with non-blank flattened text, carries that
\* text, and every such unit of every part has its segment.
C13_DenseIds ==
    bpc \in {"rebuild", "generate", "done"} =>
        /\ \A i \in 1..Len(bSegments) :
              /\ bSegments[i].id = i - 1
              /\ Len(Trim(bSegments[i].text)) > 0
              /\ bSegments[i].text = extractTextFromParagraph(UnitBefore(bSegments[i]))
        /\ \A i, j \in 1..Len(bSegments) :
              (i < j /\ bSegments[i].xmlPath = bSegments[j].xmlPath) =>
                  bSegments[i].element < bSegments[j].element
        /\ Len(bSegments) = ContentUnitCount(xmlBefore, 1)

\* three segments: the first part holds a blank unit before its content unit,
\* the ids run on into the second part
C13_Witness ==
    /\ bpc = "rebuild" /\ Len(bSegments) = 3
    /\ bSegments[1].xmlPath # bSegments[2].xmlPath
    /\ bSegments[1].element = 2
    /\ bSegments[2].id = 1 /\ bSegments[3].id = 2

\* C16: in the index-pairing rewrites, for every part the content units derived
\* again from the tree are as many as the segments of the part and the i-th of
\* them is the unit segment i was extracted from; every pair the loop has made,
\* whatever it changed before, joins a segment with the unit it came from, and
\* every segment of a handled part is in exactly one pair.
C16_IndexPairingStable ==
    (HighlightingVariant /\ bpc \in {"rebuild", "generate", "done"}) =>
        /\ \A f \in 1..Len(xmlBefore) :
               LET fileSegments == FileSegments(bSegments, xmlBefore[f].path)
                   contentParas == ContentParas(xmlBefore[f].paras)
               IN /\ Len(contentParas) = Len(fileSegments)
                  /\ \A i \in 1..Len(fileSegments) : contentParas[i] = fileSegments[i].element
        /\ \A k \in 1..Len(paired) :
               \E i \in 1..Len(bSegments) :
                   /\ bSegments[i].id = paired[k].seg
                   /\ bSegments[i].xmlPath = paired[k].path
                   /\ bSegments[i].element = paired[k].element
        /\ \A i \in 1..Len(bSegments) :
               (\E f \in 1..filePos : xmlFiles[f].path = bSegments[i].xmlPath) =>
                   Cardinality({k \in 1..Len(paired) : paired[k].seg = bSegments[i].id}) = 1

\* a rewrite is over in which a segment was paired with the second unit of its
\* part, after a blank one, and in which a unit was paired after the unit
\* before it in the same part had its text replaced
C16_Witness ==
    /\ HighlightingVariant /\ bpc = "done"
    /\ \E k \in 1..Len(paired) :
           /\ paired[k].element = 2
           /\ \A j \in 1..Len(paired) : paired[j].path = paired[k].path => j = k
    /\ \E k \in 1..Len(paired) : \E j \in 1..Len(paired) :
           /\ k < j /\ paired[k].path = paired[j].path /\ paired[k].act = "replace"
           /\ UnitBefore(bSegments[CHOOSE i \in 1..Len(bSegments) :
                                       bSegments[i].id = paired[k].seg])
              # UnitAfter(bSegments[CHOOSE i \in 1..Len(bSegments) :
                                       bSegments[i].id = paired[k].seg])

\* the (segment, unit) pairs of a pairing, and the units whose text it replaces
PairsOf(pairs) == [i \in 1..Len(pairs) |-> <<pairs[i].seg, pairs[i].element>>]
ReplacedUnits(pairs) == {pairs[i].element : i \in {j \in 1..Len(pairs) : pairs[j].act = "replace"}}

\* C30: on the trees as extracted, for every part, the text-verified pairing
\* of part_002 yields the same (segment, unit) pairs in the same order as the
\* index pairing of docxRebuilder.js, and replaces the text of the same units.
C30_PairingsAgree ==
    bpc \in {"rebuild", "generate", "done"} =>
        \A f \in 1..Len(xmlBefore) :
            LET paras == xmlBefore[f].paras
                fileSegments == FileSegments(bSegments, xmlBefore[f].path)
                byText == LegacyPairs(paras, ContentParas(paras), 1, fileSegments, 0, bMapping)
                byIndex == IndexPairs(ContentParas(paras), fileSegments, bMapping)
            IN /\ PairsOf(byText) = PairsOf(byIndex)
               /\ ReplacedUnits(byText) = ReplacedUnits(byIndex)

\* the text-verified rewrite is over on a document with a blank unit before a
\* content unit; it replaced the text of one unit and kept another as it was
C30_Witness ==
    /\ bVariant = "legacy" /\ bpc = "done"
    /\ \E k \in 1..Len(paired) :
           /\ paired[k].element = 2
           /\ \A j \in 1..Len(paired) : paired[j].path = paired[k].path => j = k
    /\ \E k \in 1..Len(paired) : \E j \in 1..Len(paired) :
           /\ k < j /\ paired[k].path = paired[j].path
           /\ paired[k].act = "keep" /\ paired[j].act = "replace"

IsNotesPath(path) == path = "ppt/notesSlides/notesSlide1.xml"

\* some segment comes from the part of that path
HoldsSegment(path) == \E i \in 1..Len(bSegments) : bSegments[i].xmlPath = path

\* the entry of the archive as it was loaded, for the entry now at position k
EntryBefore(k) ==
    IF \E f \in 1..Len(xmlBefore) : xmlBefore[f].path = zip[k].path
    THEN xmlBefore[CHOOSE f \in 1..Len(xmlBefore) : xmlBefore[f].path = zip[k].path]
    ELSE OtherEntry(bVariant)

\* C15: no segment comes from a presenter-notes part; every path the rewrite
\* writes back holds at least one segment and is no notes part; every archive
\* entry whose path holds no segment is as it was loaded.
C15_OnlySegmentPartsWritten ==
    bpc \in {"rebuild", "generate", "done"} =>
        /\ \A i \in 1..Len(bSegments) : ~IsNotesPath(bSegments[i].xmlPath)
        /\ \A k \in 1..Len(zipWritten) :
               HoldsSegment(zipWritten[k]) /\ ~IsNotesPath(zipWritten[k])
        /\ \A k \in 1..Len(zip) : ~HoldsSegment(zip[k].path) => zip[k] = EntryBefore(k)

\* a presentation has been rewritten: its archive holds notes with a content
\* unit, a slide without segments and a slide whose entry the rewrite changed
C15_Witness ==
    /\ bVariant = "pptx" /\ bpc = "done"
    /\ \E k \in 1..Len(zip) : IsNotesPath(zip[k].path) /\ isContentParagraph(zip[k].paras[1])
    /\ \E f \in 1..Len(xmlFiles) : Len(xmlFiles[f].paras) > 0 /\ ~HoldsSegment(xmlFiles[f].path)
    /\ \E k \in 1..Len(zip) : HoldsSegment(zip[k].path) /\ zip[k] # EntryBefore(k)
    /\ Len(zipWritten) = 1

----------------------------------------------------------------------------
(* Claims about the pipeline *)

\* the rewrite of run r has been called
RewriteStarted(r) == runs[r].pc \in {"generating", "finalize", "done"}

\* the run is past the review branch
PastReview(r) == RewriteStarted(r) \/ runs[r].pc = "rebuildWait"

\* C10: when alignment returned a non-empty unmatched list, the run is past
\* the review branch only once the review has resolved with skip or confirm,
\* the rewrite of a run whose review resolved with close never starts, and
\* while the review is pending the run has resolved nothing.
C10_ReviewBarrier ==
    \A r \in 1..Len(runs) :
        /\ (PastReview(r) /\ Len(runs[r].unmatched) > 0) =>
               runs[r].outcome \in {"skip", "confirm"}
        /\ runs[r].outcome = "close" => runs[r].pc \in {"resolved", "aborted"}
        /\ runs[r].pc = "review" => (runs[r].outcome = "none" /\ Listening(r))

\* two runs met unmatched segments; the review of one was confirmed and its
\* rewrite has started, the other waits at a review opened later
C10_Witness ==
    \E r, q \in 1..Len(runs) :
        /\ runs[r].pc = "generating" /\ Len(runs[r].unmatched) > 0
        /\ runs[r].outcome = "confirm"
        /\ runs[r].xmlFiles # parseArchive(runs[r].isPptx, runs[r].buffer)
        /\ runs[q].pc = "review" /\ modalShown


\* the trees and the archive of run r are as the parse left them
Untouched(r) ==
    /\ runs[r].xmlFiles = parseArchive(runs[r].isPptx, runs[r].buffer)
    /\ runs[r].zipWritten = <<>>

\* C11: a run whose review was closed is only ever resuming from the review
\* or ended by the abort, so its rewrite is never invoked; at every point
\* of a run before the rewrite, that one included, its parsed trees and its
\* archive are unmodified; and the output blob never comes from a closed run.
C11_AbortLeavesUntouched ==
    \A r \in 1..Len(runs) :
        /\ runs[r].outcome = "close" =>
               (runs[r].pc \in {"resolved", "aborted"} /\ stGeneratedBlob.run # r)
        /\ runs[r].pc \in {"match", "matched", "review", "resolved", "rebuildWait"} =>
               Untouched(r)

\* a closed run has ended by the abort while the blob of an earlier run,
\* whose rewrite changed its trees, is still in place
C11_Witness ==
    \E r, q \in 1..Len(runs) :
        /\ runs[r].pc = "aborted" /\ runs[r].outcome = "close"
        /\ Len(runs[r].unmatched) > 0
        /\ q # r /\ stGeneratedBlob.run = q
        /\ stGeneratedBlob.xmlFiles # parseArchive(stGeneratedBlob.isPptx, stGeneratedBlob.source)


\* the unit of segment seg in the trees files
UnitIn(files, seg) ==
    files[CHOOSE f \in 1..Len(files) : files[f].path = seg.xmlPath].paras[seg.element]

\* in the trees files every segment's unit has been handled under mapping m:
\* it carries its translation, or every run of it is flagged
EveryUnitHandled(files, segs, m) ==
    \A i \in 1..Len(segs) :
        IF segs[i].id \in DOMAIN m
        THEN extractTextFromParagraph(UnitIn(files, segs[i])) = m[segs[i].id]
        ELSE \A k \in 1..Len(UnitIn(files, segs[i])) : UnitIn(files, segs[i])[k].hl = "red"

\* what C14 asks of one step of run r
C14_Step(r) ==
    /\ (runs'[r].pc = "done" /\ runs[r].pc # "done") =>
           /\ runs[r].pc = "finalize"
           /\ EveryUnitHandled(runs[r].xmlFiles, runs[r].segments, runs[r].mapping)
           /\ runs[r].zipWritten = WrittenPaths(runs[r].xmlFiles, runs[r].segments, 1)
    /\ (runs'[r].pc \in {"failed", "aborted"} /\ runs[r].pc \notin {"failed", "aborted"}) =>
           (Untouched(r) /\ stGeneratedBlob'.run # r)
    /\ (stGeneratedBlob' # stGeneratedBlob /\ stGeneratedBlob'.run = r) =>
           /\ runs'[r].pc = "finalize"
           /\ EveryUnitHandled(stGeneratedBlob'.xmlFiles, runs[r].segments, runs[r].mapping)

InProgress(r) == runs[r].pc \notin {"done", "failed", "aborted"}

\* C27 as stated: at most one run is in progress at any time, and while a run
\* is in progress the generate button is disabled.
C27_SingleRunButtonDisabled ==
    /\ Cardinality({r \in 1..Len(runs) : InProgress(r)}) <= 1
    /\ (\E r \in 1..Len(runs) : InProgress(r)) => btnDisabled

\* two runs are in progress, the first of them waiting at the review modal
C27_Witness ==
    \E r, q \in 1..Len(runs) :
        /\ r < q /\ InProgress(r) /\ InProgress(q)
        /\ runs[r].pc = "review"

\* the ids of the segments run r found unmatched
UnmatchedIds(r) == {runs[r].unmatched[i].id : i \in 1..Len(runs[r].unmatched)}

\* what C23 asks of one step of run r
C23_Step(r) ==
    /\ (runs[r].pc = "review" /\ runs'[r].pc = "resolved") =>
           IF runs'[r].outcome = "confirm"
           THEN /\ \A id \in DOMAIN runs[r].mapping :
                       id \in DOMAIN runs'[r].mapping
                       /\ runs'[r].mapping[id] = runs[r].mapping[id]
                /\ \A id \in DOMAIN runs'[r].mapping \ DOMAIN runs[r].mapping :
                       /\ id \in UnmatchedIds(r)
                       /\ Len(runs'[r].mapping[id]) > 0
                       /\ Trim(runs'[r].mapping[id]) = runs'[r].mapping[id]
           ELSE runs'[r].mapping = runs[r].mapping
    /\ (runs[r].pc \in {"resolved", "rebuildWait", "generating"}
        /\ runs'[r].pc \in {"rebuildWait", "generating", "finalize"}) =>
           runs'[r].mapping = runs[r].mapping

\* C23 as stated: the review changes a run's mapping only on confirm, only by
\* adding entries for ids of the run's unmatched segments with the trimmed,
\* non-blank text supplied; skip and close leave the mapping as it is; no entry
\* the alignment produced is overwritten; the mapping does not change from the
\* end of the review on.
C23_ReviewAmendsOnlyUnmatched == [][\A r \in 1..Len(runs) : C23_Step(r)]_vars

\* one click on confirm resolved the reviews of two runs at once
C23_Witness ==
    \E r, q \in 1..Len(runs) :
        /\ r < q
        /\ runs[r].pc = "resolved" /\ runs[r].outcome = "confirm"
        /\ runs[q].pc = "resolved" /\ runs[q].outcome = "confirm"
        /\ UnmatchedIds(r) # UnmatchedIds(q)

\* C28 as stated: whenever the generate button is enabled, state.fileType and
\* state.sourceFileName are the extension and the name of the file whose bytes
\* are in state.sourceBuffer.
C28_StateDescribesBuffer ==
    ~btnDisabled =>
        /\ stSourceBuffer # NoFile
        /\ stFileType = stSourceBuffer.ext
        /\ stSourceFileName = stSourceBuffer.base

\* the button is enabled with the bytes of the document in the buffer while
\* the state names the presentation, and no read is under way any more
C28_Witness ==
    /\ ~btnDisabled /\ pendingReads = {} /\ quickParses = {}
    /\ stSourceBuffer.ext = "docx"
    /\ stFileType = "pptx" /\ stSourceFileName = "b"

\* C29 as stated: whenever handleDownload saves a file, the name and the
\* extension it uses are those of the source document state.generatedBlob was
\* generated from.
C29_DownloadNamesSource ==
    saved # NoSave => (saved.name = saved.base /\ saved.ext = saved.type)

\* the output generated from the document has been saved under the name and
\* the extension of the presentation
C29_Witness ==
    /\ saved.base = "a" /\ saved.type = "docx"
    /\ saved.name = "b" /\ saved.ext = "pptx"
    /\ stSourceBuffer.base = "b"

============================================================================
